---------------------------- MODULE Spec2Model ----------------------------
(***************************************************************************)
(* A model of the financial-advisor multi-agent system:                    *)
(*   - invoke_agent, the Invocation Adapter (financial_advisor_multiagent) *)
(*   - websearch, the Search Capability Adapter                            *)
(*   - the four specialist tools and run_complete_analysis                 *)
(*   - process_agentcore_payload, format_agentcore_response and invoke,    *)
(*     the request boundary (financial_advisor_agentcore)                  *)
(* Python str values that the code slices, strips or searches are          *)
(* sequences of one-character strings; identifiers the code only passes    *)
(* along (ticker, risk attitude, horizon) are atomic strings.              *)
(***************************************************************************)
EXTENDS Integers, Sequences, FiniteSets, TLC

VARIABLES
    run,    \* the activation of run_complete_analysis: position, locals, trace
    ia,     \* the activation of invoke_agent inside the current specialist tool
    ws,     \* the activation of websearch
    rq,     \* the activation of invoke (the AgentCore entry point)
    sched   \* the requests in flight side by side: whose frame run and ia
            \* hold, and the frames of the others

vars == <<run, ia, ws, rq, sched>>

(***************************************************************************)
(* Bounds of the model                                                     *)
(***************************************************************************)
\* length of the short model responses and exception messages
ShortLen == 2
\* by how many characters the long texts exceed a limit of the code
MaxOver == 1
\* how many whitespace characters may surround a prompt
MaxPad == 1
\* how many specialist tools the orchestrator agent calls in one request
MaxToolCalls == 1
\* for two runs side by side: how often the scheduler switches between
\* them, how many capability calls one specialist call makes, and how long
\* a stage output gets
MaxSwitches == 2
MaxConcurrentAttempts == 1
MaxConcurrentLen == 30

(***************************************************************************)
(* Text helpers                                                            *)
(***************************************************************************)
Min(a, b) == IF a <= b THEN a ELSE b

Digits == <<"0", "1", "2", "3", "4", "5", "6", "7", "8", "9">>

\* a text of n characters whose i-th character depends on i, so that a
\* prefix, a suffix and a shifted window of it are all different
Ramp(n) == [i \in 1..n |-> Digits[(i % 10) + 1]]

\* n copies of the character c
Fill(c, n) == [i \in 1..n |-> c]

\* Python s[:n] for n >= 0
Prefix(s, n) == SubSeq(s, 1, Min(Len(s), n))

\* Python s.startswith(p)
StartsWith(s, p) == Len(p) <= Len(s) /\ SubSeq(s, 1, Len(p)) = p

(***************************************************************************)
(* Exceptions: a raised exception is [cls, msg]; str(e) is msg.            *)
(***************************************************************************)
\* the direct base class of each exception class the code names or catches
BaseOf(cls) ==
    CASE cls = "RatelimitException" -> "DuckDuckGoSearchException"
      [] cls = "DuckDuckGoSearchException" -> "Exception"
      [] cls = "ValueError" -> "Exception"
      [] cls = "TypeError" -> "Exception"
      [] cls = "MemoryError" -> "Exception"
      [] cls = "OSError" -> "Exception"
      [] cls = "ConnectionError" -> "OSError"
      [] cls = "TimeoutError" -> "OSError"
      [] cls = "PermissionError" -> "OSError"
      [] cls = "RuntimeError" -> "Exception"
      [] cls = "UnicodeDecodeError" -> "ValueError"
      [] cls = "ConnectionResetError" -> "ConnectionError"
      [] cls = "KeyError" -> "Exception"
      [] cls = "Exception" -> "BaseException"
      [] OTHER -> "BaseException"

RECURSIVE IsInstance(_, _)
\* isinstance(e, base) for an exception of class cls
IsInstance(cls, base) ==
    IF cls = base THEN TRUE
    ELSE IF cls = "BaseException" THEN FALSE
    ELSE IsInstance(BaseOf(cls), base)

Exc(cls, msg) == [cls |-> cls, msg |-> msg]


(***************************************************************************)
(* The generative-model capability: agent(prompt, **kwargs).  One call     *)
(* either returns (str(...) of its result is the text) or raises.          *)
(***************************************************************************)
\* the bound of the slices [:2000] in run_complete_analysis
SummaryLimit == 2000

Returns(t) == [kind |-> "return", cls |-> "str", value |-> t]

Raises(e) == [kind |-> "raise", cls |-> e.cls, value |-> e.msg]

\* the texts the model may answer with: a short one, and one longer than
\* the summary limit
ResponseTexts == {Ramp(ShortLen), Ramp(SummaryLimit + MaxOver)}

\* what a capability call may raise: the shape-mismatch class and another one
CapabilityErrors ==
    {Exc("TypeError", Fill("k", ShortLen)), Exc("RuntimeError", Fill("b", ShortLen))}

CapabilityOutcomes ==
    {Returns(t) : t \in ResponseTexts} \cup {Raises(e) : e \in CapabilityErrors}

(***************************************************************************)
(* invoke_agent                                                            *)
(***************************************************************************)
TOKEN_CAP == 2000

\* a kwargs dict is a set of [path, value] entries
Kw(path, value) == {[path |-> path, value |-> value]}

\* a last call that still passes the token budget
NoKwargs_StillKeyed == Kw(<<"max_tokens">>, TOKEN_CAP)

\* the kwargs of the last call, agent(prompt): none
NoKwargs == {}

\* the tuple with the OpenAI-style variant first
kwargs_variants_OpenAIFirst(max_tokens) ==
    << Kw(<<"max_tokens">>, max_tokens),
       Kw(<<"max_output_tokens">>, max_tokens),
       Kw(<<"generation_config", "max_output_tokens">>, max_tokens),
       Kw(<<"inference_params", "max_tokens">>, max_tokens) >>

\* the tuple of kwargs dicts the for loop walks, in its order
kwargs_variants(max_tokens) ==
    << Kw(<<"max_output_tokens">>, max_tokens),
       Kw(<<"max_tokens">>, max_tokens),
       Kw(<<"generation_config", "max_output_tokens">>, max_tokens),
       Kw(<<"inference_params", "max_tokens">>, max_tokens) >>

ErrorPrefix ==
    <<"A", "g", "e", "n", "t", " ", "i", "n", "v", "o", "c", "a", "t", "i", "o",
      "n", " ", "e", "r", "r", "o", "r", ":", " ">>

ErrorPrefixNoKwargs ==
    <<"A", "g", "e", "n", "t", " ", "i", "n", "v", "o", "c", "a", "t", "i", "o",
      "n", " ", "e", "r", "r", "o", "r", " ", "(", "n", "o", "-", "k", "w", "a",
      "r", "g", "s", ")", ":", " ">>

\* keyed_attempt with `except Exception: continue`: any failure moves on to
\* the next variant
keyed_attempt_ContinuesOnAnyError(outcome) ==
    IF outcome.kind = "return"
    THEN [do |-> "return", value |-> outcome.value]
    ELSE IF IsInstance(outcome.cls, "Exception")
    THEN [do |-> "continue", value |-> <<>>]
    ELSE [do |-> "raise", value |-> <<>>]

\* keyed_attempt that only handles TypeError: any other exception leaves
\* invoke_agent
keyed_attempt_RaisesOtherErrors(outcome) ==
    IF outcome.kind = "return"
    THEN [do |-> "return", value |-> outcome.value]
    ELSE IF IsInstance(outcome.cls, "TypeError")
    THEN [do |-> "continue", value |-> <<>>]
    ELSE [do |-> "raise", value |-> <<>>]

\* the try/except of one keyed attempt: return the text, continue on
\* TypeError, return failure text on any other Exception
keyed_attempt(outcome) ==
    IF outcome.kind = "return"
    THEN [do |-> "return", value |-> outcome.value]
    ELSE IF IsInstance(outcome.cls, "TypeError")
    THEN [do |-> "continue", value |-> <<>>]
    ELSE IF IsInstance(outcome.cls, "Exception")
    THEN [do |-> "return", value |-> ErrorPrefix \o outcome.value]
    ELSE [do |-> "raise", value |-> <<>>]

\* bare_attempt whose handler lets a TypeError of the bare call through
bare_attempt_LetsTypeErrorThrough(outcome) ==
    IF outcome.kind = "return"
    THEN [do |-> "return", value |-> outcome.value]
    ELSE IF IsInstance(outcome.cls, "TypeError")
    THEN [do |-> "raise", value |-> <<>>]
    ELSE IF IsInstance(outcome.cls, "Exception")
    THEN [do |-> "return", value |-> ErrorPrefixNoKwargs \o outcome.value]
    ELSE [do |-> "raise", value |-> <<>>]

\* bare_attempt that reports its failure with the text of the keyed attempts
bare_attempt_Unmarked(outcome) ==
    IF outcome.kind = "return"
    THEN [do |-> "return", value |-> outcome.value]
    ELSE IF IsInstance(outcome.cls, "Exception")
    THEN [do |-> "return", value |-> ErrorPrefix \o outcome.value]
    ELSE [do |-> "raise", value |-> <<>>]

\* the try/except of the last, bare attempt
bare_attempt(outcome) ==
    IF outcome.kind = "return"
    THEN [do |-> "return", value |-> outcome.value]
    ELSE IF IsInstance(outcome.cls, "Exception")
    THEN [do |-> "return", value |-> ErrorPrefixNoKwargs \o outcome.value]
    ELSE [do |-> "raise", value |-> <<>>]

IdleAgent ==
    [status |-> "idle", agent |-> "", prompt |-> <<>>, max_tokens |-> 0,
     calls |-> <<>>, result |-> <<>>]

\* entering invoke_agent(agent, prompt, max_tokens)
invoke_agent(agent, prompt, max_tokens) ==
    [status |-> "running", agent |-> agent, prompt |-> prompt,
     max_tokens |-> max_tokens, calls |-> <<>>, result |-> <<>>]

\* the next attempt of a running invoke_agent with the capability's outcome
invoke_agent_step(a, outcome) ==
    LET variants == kwargs_variants(a.max_tokens)
        k == Len(a.calls) + 1
        keyed == k <= Len(variants)
        kwargs == IF keyed THEN variants[k] ELSE NoKwargs
        h == IF keyed THEN keyed_attempt(outcome) ELSE bare_attempt(outcome)
    IN [a EXCEPT
          !.calls = Append(@, [kwargs |-> kwargs, outcome |-> outcome]),
          !.status = CASE h.do = "continue" -> "running"
                       [] h.do = "return" -> "returned"
                       [] OTHER -> "raised",
          !.result = h.value]

\* one underlying capability call made by invoke_agent
AgentCall ==
    /\ ia.status = "running"
    /\ \E outcome \in CapabilityOutcomes : ia' = invoke_agent_step(ia, outcome)
    /\ UNCHANGED <<run, ws, rq, sched>>

(***************************************************************************)
(* The specialist tools: each builds its prompt from its arguments and     *)
(* returns invoke_agent(_agents.<role>, prompt, max_tokens=TOKEN_CAP).     *)
(* A prompt is the f-string's template with the values it interpolates.    *)
(* A tool operator gives the call it makes: the tool's name, the arguments *)
(* it was called with, and the invoke_agent activation it enters.          *)
(***************************************************************************)
market_intel_tool(ticker, lookback_days) ==
    [tool |-> "market_intel_tool",
     args |-> [ticker |-> ticker, lookback_days |-> lookback_days],
     enters |-> invoke_agent("market_intelligence",
                    [template |-> "market_intel", ticker |-> ticker,
                     lookback_days |-> lookback_days],
                    TOKEN_CAP)]

\* the strategy tool driving the agent of the market tool
strategy_architect_tool_OnMarketAgent(ticker, risk_attitude, horizon) ==
    [tool |-> "strategy_architect_tool",
     args |-> [ticker |-> ticker, risk_attitude |-> risk_attitude,
               horizon |-> horizon],
     enters |-> invoke_agent("market_intelligence",
                    [template |-> "strategy_architect", ticker |-> ticker,
                     risk_attitude |-> risk_attitude, horizon |-> horizon],
                    TOKEN_CAP)]

strategy_architect_tool(ticker, risk_attitude, horizon) ==
    [tool |-> "strategy_architect_tool",
     args |-> [ticker |-> ticker, risk_attitude |-> risk_attitude,
               horizon |-> horizon],
     enters |-> invoke_agent("strategy_architect",
                    [template |-> "strategy_architect", ticker |-> ticker,
                     risk_attitude |-> risk_attitude, horizon |-> horizon],
                    TOKEN_CAP)]

execution_planner_tool(ticker, strategy_summary) ==
    [tool |-> "execution_planner_tool",
     args |-> [ticker |-> ticker, strategy_summary |-> strategy_summary],
     enters |-> invoke_agent("execution_planner",
                    [template |-> "execution_planner", ticker |-> ticker,
                     strategy_summary |-> strategy_summary],
                    TOKEN_CAP)]

risk_assessor_tool(ticker, market_summary, strategies_summary, execution_plan) ==
    [tool |-> "risk_assessor_tool",
     args |-> [ticker |-> ticker, market_summary |-> market_summary,
               strategies_summary |-> strategies_summary,
               execution_plan |-> execution_plan],
     enters |-> invoke_agent("risk_assessor",
                    [template |-> "risk_assessor", ticker |-> ticker,
                     market_summary |-> market_summary,
                     strategies_summary |-> strategies_summary,
                     execution_plan |-> execution_plan],
                    TOKEN_CAP)]

(***************************************************************************)
(* FinancialAdvisorOrchestrator.run_complete_analysis                      *)
(***************************************************************************)
\* the slice taken one character too long
truncated_OffByOne(s) == Prefix(s, SummaryLimit + 1)

\* the slice s[:2000] applied to a stage output handed downstream
truncated(s) == Prefix(s, SummaryLimit)

\* run.pc is the statement run_complete_analysis is at; run.tool the
\* specialist tool it is inside ("" when in none); run.events the calls and
\* returns of the specialist tools so far
IdleRun ==
    [pc |-> "Idle", tool |-> "", locals |-> <<>>, events |-> <<>>, out |-> <<>>]

Called(call) == [ev |-> "call", tool |-> call.tool, args |-> call.args]

Returned(tool, value) == [ev |-> "return", tool |-> tool, args |-> value]

\* a dict of the four stage outputs alone
analysis_result_OutputsOnly(l) ==
    [market_analysis |-> l.market_analysis,
     strategies |-> l.strategies,
     execution_plan |-> l.execution_plan,
     risk_assessment |-> l.risk_assessment]

\* a dict that holds the summaries handed downstream in place of the outputs
analysis_result_HoldsSummaries(l) ==
    [ticker |-> l.ticker,
     risk_attitude |-> l.risk_attitude,
     horizon |-> l.horizon,
     market_analysis |-> truncated(l.market_analysis),
     strategies |-> truncated(l.strategies),
     execution_plan |-> truncated(l.execution_plan),
     risk_assessment |-> l.risk_assessment]

\* the dict run_complete_analysis returns
analysis_result(l) ==
    [ticker |-> l.ticker,
     risk_attitude |-> l.risk_attitude,
     horizon |-> l.horizon,
     market_analysis |-> l.market_analysis,
     strategies |-> l.strategies,
     execution_plan |-> l.execution_plan,
     risk_assessment |-> l.risk_assessment]

\* run_complete_analysis going on without waiting for the tool in flight
ToolDone_NoWait == ia.status \in {"running", "returned", "raised"}

\* the specialist tool in flight has come back to run_complete_analysis:
\* with its value, or with an exception, which nothing there catches
ToolDone == ia.status \in {"returned", "raised"}

\* Advance that gives up when the tool came back with failure text
Advance_AbortsOnFailureText(name, next, call) ==
    IF StartsWith(ia.result, SubSeq(ErrorPrefix, 1, 22))
    THEN /\ run' = [run EXCEPT !.pc = "Complete", !.tool = "",
                      !.locals = (name :> ia.result) @@ @,
                      !.events = Append(@, Returned(run.tool, ia.result))]
         /\ ia' = IdleAgent
    ELSE /\ run' = [run EXCEPT
                      !.pc = next,
                      !.tool = call.tool,
                      !.locals = (name :> ia.result) @@ @,
                      !.events = @ \o <<Returned(run.tool, ia.result),
                                        Called(call)>>]
         /\ ia' = call.enters

\* the tool in flight has come back: bind its value to `name` and go on to
\* statement `next`, which makes `call`; an exception propagates instead
Advance(name, next, call) ==
    IF ia.status = "raised"
    THEN /\ run' = [run EXCEPT !.pc = "Raised", !.tool = ""]
         /\ ia' = IdleAgent
    ELSE /\ run' = [run EXCEPT
                      !.pc = next,
                      !.tool = call.tool,
                      !.locals = (name :> ia.result) @@ @,
                      !.events = @ \o <<Returned(run.tool, ia.result),
                                        Called(call)>>]
         /\ ia' = call.enters

\* Step 1: market_analysis = self.get_market_analysis(ticker, lookback_days)
CallMarket ==
    /\ run.pc = "Received"
    /\ LET l == run.locals
           call == market_intel_tool(l.ticker, l.lookback_days)
       IN /\ run' = [run EXCEPT !.pc = "Market",
                                !.tool = call.tool,
                                !.events = Append(@, Called(call))]
          /\ ia' = call.enters
    /\ UNCHANGED <<ws, rq, sched>>

\* Step 2: strategies = self.get_strategies(ticker, risk_attitude, horizon)
CallStrategy ==
    /\ run.pc = "Market"
    /\ ToolDone
    /\ LET l == run.locals
       IN Advance("market_analysis", "Strategy",
                  strategy_architect_tool(l.ticker, l.risk_attitude, l.horizon))
    /\ UNCHANGED <<ws, rq, sched>>

\* Step 3: execution_plan = self.get_execution_plan(ticker, strategies[:2000])
CallExecution ==
    /\ run.pc = "Strategy"
    /\ ToolDone
    /\ LET l == run.locals
           strategies == ia.result
       IN Advance("strategies", "Execution",
                  execution_planner_tool(l.ticker, truncated(strategies)))
    /\ UNCHANGED <<ws, rq, sched>>

\* Step 4 with the market analysis and the strategies in each other's place
CallRisk_SwapsSummaries ==
    /\ run.pc = "Execution"
    /\ ToolDone
    /\ LET l == run.locals
           execution_plan == ia.result
       IN Advance("execution_plan", "Risk",
                  risk_assessor_tool(l.ticker, truncated(l.strategies),
                                     truncated(l.market_analysis),
                                     truncated(execution_plan)))
    /\ UNCHANGED <<ws, rq, sched>>

\* Step 4: risk_assessment = self.get_risk_assessment(ticker,
\*   market_analysis[:2000], strategies[:2000], execution_plan[:2000])
CallRisk ==
    /\ run.pc = "Execution"
    /\ ToolDone
    /\ LET l == run.locals
           execution_plan == ia.result
       IN Advance("execution_plan", "Risk",
                  risk_assessor_tool(l.ticker, truncated(l.market_analysis),
                                     truncated(l.strategies),
                                     truncated(execution_plan)))
    /\ UNCHANGED <<ws, rq, sched>>

\* a run that calls the risk tool again for as long as it comes back with
\* failure text
Complete_RetriesRiskOnFailure ==
    /\ run.pc = "Risk"
    /\ ToolDone
    /\ IF StartsWith(ia.result, SubSeq(ErrorPrefix, 1, 22))
       THEN /\ run' = run
            /\ ia' = [ia EXCEPT !.status = "running", !.calls = <<>>,
                                !.result = <<>>]
       ELSE /\ LET l == ("risk_assessment" :> ia.result) @@ run.locals
               IN run' = [run EXCEPT
                            !.pc = "Complete",
                            !.tool = "",
                            !.locals = l,
                            !.events = Append(@, Returned(run.tool, ia.result)),
                            !.out = analysis_result(l)]
            /\ ia' = IdleAgent
    /\ UNCHANGED <<ws, rq, sched>>

\* return {...}: the run completes with the dict of its seven entries
Complete ==
    /\ run.pc = "Risk"
    /\ ToolDone
    /\ IF ia.status = "raised"
       THEN run' = [run EXCEPT !.pc = "Raised", !.tool = ""]
       ELSE LET l == ("risk_assessment" :> ia.result) @@ run.locals
            IN run' = [run EXCEPT
                         !.pc = "Complete",
                         !.tool = "",
                         !.locals = l,
                         !.events = Append(@, Returned(run.tool, ia.result)),
                         !.out = analysis_result(l)]
    /\ ia' = IdleAgent
    /\ UNCHANGED <<ws, rq, sched>>

(***************************************************************************)
(* The specification of one run of run_complete_analysis                   *)
(***************************************************************************)
Tickers == {"AAPL", "MSFT"}

IdleSearch == [pc |-> "idle"]

IdleRequest == [pc |-> "idle"]

\* one request alone: no other frame
SingleRequest == [current |-> 1, frames |-> <<>>, switches |-> 0]

Init ==
    /\ \E t \in Tickers :
         run = [pc |-> "Received", tool |-> "",
                locals |-> [ticker |-> t, risk_attitude |-> "Moderate",
                            horizon |-> "Medium-term", lookback_days |-> 7],
                events |-> <<>>, out |-> <<>>]
    /\ ia = IdleAgent
    /\ ws = IdleSearch
    /\ rq = IdleRequest
    /\ sched = SingleRequest

Next ==
    \/ CallMarket
    \/ AgentCall
    \/ CallStrategy
    \/ CallExecution
    \/ CallRisk
    \/ Complete

Spec == Init /\ [][Next]_vars

\* one run in which every capability call in flight comes back, returning
\* or failing, and the statement that is next executes: the code is one
\* sequential thread that waits for nothing else
SpecFair == Init /\ [][Next]_vars /\ WF_vars(Next)

(***************************************************************************)
(* Two requests in flight at once, each in its own activation of           *)
(* run_complete_analysis on the one shared orchestrator (and the one       *)
(* shared _agents).  run and ia hold the activation that is executing;     *)
(* sched.frames holds the other one.  A switch of the scheduler may come   *)
(* between any two steps.                                                  *)
(***************************************************************************)
Requests == {1, 2}

\* the arguments of the two requests
ConcurrentArguments ==
    <<[ticker |-> "AAPL", risk_attitude |-> "Moderate",
       horizon |-> "Medium-term", lookback_days |-> 7],
      [ticker |-> "MSFT", risk_attitude |-> "Aggressive",
       horizon |-> "Short-term", lookback_days |-> 30]>>

\* run_complete_analysis entered with its arguments
StartRun(arguments) ==
    [pc |-> "Received", tool |-> "", locals |-> arguments, events |-> <<>>,
     out |-> <<>>]

StageOutputs == {"market_analysis", "strategies", "execution_plan", "risk_assessment"}

\* an orchestrator that keeps the stage outputs on self: the activation
\* that resumes finds the values the other one left there
resume_StageOutputsOnSelf(own, other) ==
    [own EXCEPT !.run.locals =
        [k \in DOMAIN other.run.locals \cap StageOutputs |-> other.run.locals[k]]
        @@ @]

\* the activation that resumes: its arguments and the stage outputs are
\* local variables of run_complete_analysis, so it finds its own, whatever
\* the activation that leaves the processor (`other`) holds
resume(own, other) == own

\* the scheduler takes the executing activation off and puts the other on
Switch ==
    /\ sched.switches < MaxSwitches
    /\ \E id \in DOMAIN sched.frames :
         LET leaving == [run |-> run, ia |-> ia]
             resumed == resume(sched.frames[id], leaving)
         IN /\ run' = resumed.run
            /\ ia' = resumed.ia
            /\ sched' = [current |-> id,
                         frames |-> (sched.current :> leaving),
                         switches |-> sched.switches + 1]
    /\ UNCHANGED <<ws, rq>>

\* a step of the executing activation
ConcurrentStep ==
    /\ Next
    /\ Len(ia'.calls) <= MaxConcurrentAttempts
    /\ Len(ia'.calls) = MaxConcurrentAttempts => ia'.status # "running"
    /\ Len(ia'.result) <= MaxConcurrentLen

InitConcurrent ==
    /\ run = StartRun(ConcurrentArguments[1])
    /\ ia = IdleAgent
    /\ sched = [current |-> 1,
                frames |-> (2 :> [run |-> StartRun(ConcurrentArguments[2]),
                                  ia |-> IdleAgent]),
                switches |-> 0]
    /\ ws = IdleSearch
    /\ rq = IdleRequest

NextConcurrent ==
    \/ ConcurrentStep
    \/ Switch

SpecConcurrent == InitConcurrent /\ [][NextConcurrent]_vars

(***************************************************************************)
(* websearch, the @tool around DDGS().text(keywords, region, max_results)  *)
(***************************************************************************)
NoResultsFound ==
    <<"N", "o", " ", "r", "e", "s", "u", "l", "t", "s", " ", "f", "o", "u",
      "n", "d", ".">>

RatelimitMessage ==
    <<"R", "a", "t", "e", "l", "i", "m", "i", "t", "E", "x", "c", "e", "p",
      "t", "i", "o", "n", ":", " ", "P", "l", "e", "a", "s", "e", " ", "t",
      "r", "y", " ", "a", "g", "a", "i", "n", " ", "a", "f", "t", "e", "r",
      " ", "a", " ", "s", "h", "o", "r", "t", " ", "d", "e", "l", "a", "y",
      ".">>

ProviderErrorPrefix ==
    <<"D", "u", "c", "k", "D", "u", "c", "k", "G", "o", "S", "e", "a", "r",
      "c", "h", "E", "x", "c", "e", "p", "t", "i", "o", "n", ":", " ">>

ExceptionPrefix ==
    <<"E", "x", "c", "e", "p", "t", "i", "o", "n", ":", " ">>

\* the search capability returns a list of results or raises
SearchReturns(results) == [kind |-> "return", cls |-> "list", value |-> results]

\* a str and a list value of Python
Str(t) == [raised |-> FALSE, type |-> "str", value |-> t]

List(r) == [raised |-> FALSE, type |-> "list", value |-> r]

Propagated(o) == [raised |-> TRUE, type |-> o.cls, value |-> o.value]

\* websearch that returns whatever the search call returned
websearch_ReturnsResultsAsIs(outcome) ==
    IF outcome.kind = "return"
    THEN List(outcome.value)
    ELSE IF IsInstance(outcome.cls, "RatelimitException")
    THEN Str(RatelimitMessage)
    ELSE IF IsInstance(outcome.cls, "DuckDuckGoSearchException")
    THEN Str(ProviderErrorPrefix \o outcome.value)
    ELSE IF IsInstance(outcome.cls, "Exception")
    THEN Str(ExceptionPrefix \o outcome.value)
    ELSE Propagated(outcome)

\* websearch with the two DuckDuckGo handlers in the other order
websearch_ProviderHandlerFirst(outcome) ==
    IF outcome.kind = "return"
    THEN IF outcome.value # <<>> THEN List(outcome.value) ELSE Str(NoResultsFound)
    ELSE IF IsInstance(outcome.cls, "DuckDuckGoSearchException")
    THEN Str(ProviderErrorPrefix \o outcome.value)
    ELSE IF IsInstance(outcome.cls, "RatelimitException")
    THEN Str(RatelimitMessage)
    ELSE IF IsInstance(outcome.cls, "Exception")
    THEN Str(ExceptionPrefix \o outcome.value)
    ELSE Propagated(outcome)

\* what websearch gives its caller for the outcome of its one search call:
\* the try body and the three handlers, in their order
websearch(outcome) ==
    IF outcome.kind = "return"
    THEN IF outcome.value # <<>> THEN List(outcome.value) ELSE Str(NoResultsFound)
    ELSE IF IsInstance(outcome.cls, "RatelimitException")
    THEN Str(RatelimitMessage)
    ELSE IF IsInstance(outcome.cls, "DuckDuckGoSearchException")
    THEN Str(ProviderErrorPrefix \o outcome.value)
    ELSE IF IsInstance(outcome.cls, "Exception")
    THEN Str(ExceptionPrefix \o outcome.value)
    ELSE Propagated(outcome)

\* the messages a search exception may carry: none, a short one, and the
\* advisory sentence of the rate-limit string itself
SearchMessages ==
    {<<>>, Fill("m", ShortLen), SubSeq(RatelimitMessage, 21, Len(RatelimitMessage))}

SearchErrorClasses ==
    {"RatelimitException", "DuckDuckGoSearchException", "RuntimeError", "ValueError"}

SearchOutcomes ==
    {SearchReturns(r) : r \in {<<>>, <<"r1">>, <<"r1", "r2">>}}
    \cup {Raises(Exc(c, m)) : c \in SearchErrorClasses, m \in SearchMessages}

\* websearch(keywords, region, max_results) is entered and makes its call
SearchCall ==
    /\ ws.pc = "entered"
    /\ ws' = [ws EXCEPT !.pc = "searching",
                        !.calls = Append(@, [keywords |-> ws.keywords,
                                             region |-> ws.region,
                                             max_results |-> ws.max_results])]
    /\ UNCHANGED <<run, ia, rq, sched>>

\* websearch that makes its search call once more after a rate-limit failure
SearchDone_RetriesOnRatelimit ==
    /\ ws.pc = "searching"
    /\ \E outcome \in SearchOutcomes :
         IF /\ outcome.kind = "raise"
            /\ IsInstance(outcome.cls, "RatelimitException")
            /\ Len(ws.calls) < 2
         THEN ws' = [ws EXCEPT !.pc = "entered"]
         ELSE ws' = [ws EXCEPT !.pc = "done", !.outcome = outcome,
                               !.ret = websearch(outcome)]
    /\ UNCHANGED <<run, ia, rq, sched>>

\* the search call comes back and websearch returns
SearchDone ==
    /\ ws.pc = "searching"
    /\ \E outcome \in SearchOutcomes :
         ws' = [ws EXCEPT !.pc = "done", !.outcome = outcome,
                          !.ret = websearch(outcome)]
    /\ UNCHANGED <<run, ia, rq, sched>>

InitSearch ==
    /\ \E k \in {"AAPL news", "MSFT filings"}, r \in {"us-en", "wt-wt"},
          m \in {[some |-> FALSE], [some |-> TRUE, n |-> 5]} :
         ws = [pc |-> "entered", keywords |-> k, region |-> r, max_results |-> m,
               calls |-> <<>>, outcome |-> <<>>, ret |-> <<>>]
    /\ run = IdleRun
    /\ ia = IdleAgent
    /\ rq = IdleRequest
    /\ sched = SingleRequest

NextSearch ==
    \/ SearchCall
    \/ SearchDone

SpecSearch == InitSearch /\ [][NextSearch]_vars

(***************************************************************************)
(* Python values of a request payload                                      *)
(***************************************************************************)
StrValue(t) == [type |-> "str", chars |-> t]

IntValue(n) == [type |-> "int", int |-> n]

NoneValue == [type |-> "NoneType"]

ListValue(l) == [type |-> "list", elems |-> l]

\* a dict is the set of its items, [key, val]
DictValue(items) == [type |-> "dict", items |-> items]

Item(k, v) == [key |-> k, val |-> v]

\* bool(v)
Truthy(v) ==
    CASE v.type = "NoneType" -> FALSE
      [] v.type = "int" -> v.int # 0
      [] v.type = "dict" -> v.items # {}
      [] v.type = "list" -> v.elems # <<>>
      [] v.type = "str" -> v.chars # <<>>

\* payload.get(key, default)
dict_get(d, key, default) ==
    IF \E it \in d.items : it.key = key
    THEN (CHOOSE it \in d.items : it.key = key).val
    ELSE default

\* the characters str.strip() removes
Whitespace == {" ", "\t", "\n", "\r"}

\* str.strip(): drop the leading and the trailing whitespace
strip(s) ==
    IF \A i \in 1..Len(s) : s[i] \in Whitespace
    THEN <<>>
    ELSE LET first == CHOOSE i \in 1..Len(s) :
                        s[i] \notin Whitespace /\ \A j \in 1..(i - 1) : s[j] \in Whitespace
             back == CHOOSE k \in 0..(Len(s) - 1) :
                        /\ s[Len(s) - k] \notin Whitespace
                        /\ \A j \in (Len(s) - k + 1)..Len(s) : s[j] \in Whitespace
         IN SubSeq(s, first, Len(s) - back)

UpperCase ==
    <<"A", "B", "C", "D", "E", "F", "G", "H", "I", "J", "K", "L", "M", "N", "O",
      "P", "Q", "R", "S", "T", "U", "V", "W", "X", "Y", "Z">>

LowerCase ==
    <<"a", "b", "c", "d", "e", "f", "g", "h", "i", "j", "k", "l", "m", "n", "o",
      "p", "q", "r", "s", "t", "u", "v", "w", "x", "y", "z">>

\* str.lower(), character by character
lower(s) ==
    [i \in 1..Len(s) |->
        IF \E n \in 1..Len(UpperCase) : UpperCase[n] = s[i]
        THEN LowerCase[CHOOSE n \in 1..Len(UpperCase) : UpperCase[n] = s[i]]
        ELSE s[i]]

\* pattern in s
Contains(s, pattern) ==
    \E i \in 1..(Len(s) - Len(pattern) + 1) :
        \A j \in 1..Len(pattern) : s[i + j - 1] = pattern[j]

RECURSIVE Decimal(_)
\* str(n) for n >= 0
Decimal(n) ==
    IF n < 10 THEN <<Digits[n + 1]>>
    ELSE Decimal(n \div 10) \o <<Digits[(n % 10) + 1]>>

(***************************************************************************)
(* process_agentcore_payload                                               *)
(***************************************************************************)
MAX_INPUT_LENGTH == 5000

suspicious_patterns ==
    <<<<"<", "s", "c", "r", "i", "p", "t">>,
      <<"j", "a", "v", "a", "s", "c", "r", "i", "p", "t", ":">>,
      <<"e", "v", "a", "l", "(">>,
      <<"e", "x", "e", "c", "(">>,
      <<"_", "_", "i", "m", "p", "o", "r", "t", "_", "_">>,
      <<"s", "u", "b", "p", "r", "o", "c", "e", "s", "s">>,
      <<"o", "s", ".", "s", "y", "s", "t", "e", "m">>>>

MsgNotDict ==
    <<"P", "a", "y", "l", "o", "a", "d", " ", "m", "u", "s", "t", " ", "b",
      "e", " ", "a", " ", "d", "i", "c", "t", "i", "o", "n", "a", "r", "y">>

MsgNoPrompt ==
    <<"P", "l", "e", "a", "s", "e", " ", "p", "r", "o", "v", "i", "d", "e",
      " ", "a", " ", "f", "i", "n", "a", "n", "c", "i", "a", "l", " ", "a",
      "d", "v", "i", "s", "o", "r", "y", " ", "r", "e", "q", "u", "e", "s",
      "t", ".", " ", "I", "n", "c", "l", "u", "d", "e", " ", "t", "i", "c",
      "k", "e", "r", " ", "s", "y", "m", "b", "o", "l", ",", " ", "r", "i",
      "s", "k", " ", "t", "o", "l", "e", "r", "a", "n", "c", "e", " ", "(",
      "C", "o", "n", "s", "e", "r", "v", "a", "t", "i", "v", "e", "/", "M",
      "o", "d", "e", "r", "a", "t", "e", "/", "A", "g", "g", "r", "e", "s",
      "s", "i", "v", "e", ")", ",", " ", "a", "n", "d", " ", "i", "n", "v",
      "e", "s", "t", "m", "e", "n", "t", " ", "h", "o", "r", "i", "z", "o",
      "n", " ", "(", "S", "h", "o", "r", "t", "-", "t", "e", "r", "m", "/",
      "M", "e", "d", "i", "u", "m", "-", "t", "e", "r", "m", "/", "L", "o",
      "n", "g", "-", "t", "e", "r", "m", ")", " ", "f", "o", "r", " ", "b",
      "e", "s", "t", " ", "r", "e", "s", "u", "l", "t", "s", ".", " ", "E",
      "x", "a", "m", "p", "l", "e", ":", " ", "'", "A", "n", "a", "l", "y",
      "z", "e", " ", "A", "A", "P", "L", " ", "s", "t", "o", "c", "k", " ",
      "f", "o", "r", " ", "m", "o", "d", "e", "r", "a", "t", "e", " ", "r",
      "i", "s", "k", " ", "i", "n", "v", "e", "s", "t", "o", "r", " ", "w",
      "i", "t", "h", " ", "l", "o", "n", "g", "-", "t", "e", "r", "m", " ",
      "h", "o", "r", "i", "z", "o", "n", "'">>

MsgNotString ==
    <<"T", "h", "e", " ", "'", "p", "r", "o", "m", "p", "t", "'", " ", "f",
      "i", "e", "l", "d", " ", "m", "u", "s", "t", " ", "b", "e", " ", "a",
      " ", "s", "t", "r", "i", "n", "g", " ", "c", "o", "n", "t", "a", "i",
      "n", "i", "n", "g", " ", "y", "o", "u", "r", " ", "f", "i", "n", "a",
      "n", "c", "i", "a", "l", " ", "q", "u", "e", "r", "y">>

MsgTooLongHead ==
    <<"Q", "u", "e", "r", "y", " ", "t", "o", "o", " ", "l", "o", "n", "g",
      ".", " ", "M", "a", "x", "i", "m", "u", "m", " ">>

MsgTooLongTail ==
    <<" ", "c", "h", "a", "r", "a", "c", "t", "e", "r", "s", " ", "a", "l",
      "l", "o", "w", "e", "d", ".">>

MsgTooLong == MsgTooLongHead \o Decimal(MAX_INPUT_LENGTH) \o MsgTooLongTail

MsgSuspicious ==
    <<"I", "n", "v", "a", "l", "i", "d", " ", "c", "h", "a", "r", "a", "c",
      "t", "e", "r", "s", " ", "d", "e", "t", "e", "c", "t", "e", "d", " ",
      "i", "n", " ", "q", "u", "e", "r", "y", ".", " ", "P", "l", "e", "a",
      "s", "e", " ", "p", "r", "o", "v", "i", "d", "e", " ", "a", " ", "s",
      "t", "a", "n", "d", "a", "r", "d", " ", "f", "i", "n", "a", "n", "c",
      "i", "a", "l", " ", "a", "d", "v", "i", "s", "o", "r", "y", " ", "r",
      "e", "q", "u", "e", "s", "t", ".">>

MsgWhitespace ==
    <<"P", "l", "e", "a", "s", "e", " ", "p", "r", "o", "v", "i", "d", "e",
      " ", "a", " ", "n", "o", "n", "-", "e", "m", "p", "t", "y", " ", "f",
      "i", "n", "a", "n", "c", "i", "a", "l", " ", "a", "d", "v", "i", "s",
      "o", "r", "y", " ", "r", "e", "q", "u", "e", "s", "t", ".", " ", "I",
      "n", "c", "l", "u", "d", "e", " ", "t", "i", "c", "k", "e", "r", " ",
      "s", "y", "m", "b", "o", "l", ",", " ", "r", "i", "s", "k", " ", "t",
      "o", "l", "e", "r", "a", "n", "c", "e", ",", " ", "a", "n", "d", " ",
      "i", "n", "v", "e", "s", "t", "m", "e", "n", "t", " ", "h", "o", "r",
      "i", "z", "o", "n", " ", "f", "o", "r", " ", "b", "e", "s", "t", " ",
      "r", "e", "s", "u", "l", "t", "s", ".">>

\* return processed_query / raise ValueError(msg)
Accepted(q) == [ok |-> TRUE, value |-> q]

Rejected(msg) == [ok |-> FALSE, value |-> Exc("ValueError", msg)]

too_long_AtLimit(q) == Len(q) >= MAX_INPUT_LENGTH

\* the length check: len(processed_query) > MAX_INPUT_LENGTH
too_long(q) == Len(q) > MAX_INPUT_LENGTH

\* the deny-list loop over the query as it is written
is_suspicious_CaseSensitive(q) ==
    \E n \in 1..Len(suspicious_patterns) : Contains(q, suspicious_patterns[n])

\* the deny-list loop over the lower-cased query
is_suspicious(q) ==
    LET query_lower == lower(q)
    IN \E n \in 1..Len(suspicious_patterns) :
          Contains(query_lower, suspicious_patterns[n])

\* a validator that measures the prompt as it was sent
process_agentcore_payload_MeasuresAsSent(payload) ==
    IF payload.type # "dict"
    THEN Rejected(MsgNotDict)
    ELSE LET user_query == dict_get(payload, "prompt", StrValue(<<>>))
         IN IF ~Truthy(user_query)
            THEN Rejected(MsgNoPrompt)
            ELSE IF user_query.type # "str"
            THEN Rejected(MsgNotString)
            ELSE LET processed_query == strip(user_query.chars)
                 IN IF too_long(user_query.chars)
                    THEN Rejected(MsgTooLong)
                    ELSE IF is_suspicious(processed_query)
                    THEN Rejected(MsgSuspicious)
                    ELSE IF processed_query = <<>>
                    THEN Rejected(MsgWhitespace)
                    ELSE Accepted(processed_query)

process_agentcore_payload_DenyListFirst(payload) ==
    IF payload.type # "dict"
    THEN Rejected(MsgNotDict)
    ELSE LET user_query == dict_get(payload, "prompt", StrValue(<<>>))
         IN IF ~Truthy(user_query)
            THEN Rejected(MsgNoPrompt)
            ELSE IF user_query.type # "str"
            THEN Rejected(MsgNotString)
            ELSE LET processed_query == strip(user_query.chars)
                 IN IF is_suspicious(processed_query)
                    THEN Rejected(MsgSuspicious)
                    ELSE IF too_long(processed_query)
                    THEN Rejected(MsgTooLong)
                    ELSE IF processed_query = <<>>
                    THEN Rejected(MsgWhitespace)
                    ELSE Accepted(processed_query)

\* the checks of process_agentcore_payload, in the order of the code
process_agentcore_payload(payload) ==
    IF payload.type # "dict"
    THEN Rejected(MsgNotDict)
    ELSE LET user_query == dict_get(payload, "prompt", StrValue(<<>>))
         IN IF ~Truthy(user_query)
            THEN Rejected(MsgNoPrompt)
            ELSE IF user_query.type # "str"
            THEN Rejected(MsgNotString)
            ELSE LET processed_query == strip(user_query.chars)
                 IN IF too_long(processed_query)
                    THEN Rejected(MsgTooLong)
                    ELSE IF is_suspicious(processed_query)
                    THEN Rejected(MsgSuspicious)
                    ELSE IF processed_query = <<>>
                    THEN Rejected(MsgWhitespace)
                    ELSE Accepted(processed_query)

(***************************************************************************)
(* format_agentcore_response and the error envelopes of invoke             *)
(***************************************************************************)
SystemName == "financial-advisor-multiagent"

\* format_agentcore_response that tidies the text it is given
format_agentcore_response_StripsResult(advisor_response, now1, now2) ==
    [result |-> strip(advisor_response),
     timestamp |-> now1,
     system |-> SystemName,
     metadata |->
       [version |-> "1.0.0",
        agent_type |-> "financial_advisor",
        educational_disclaimer |-> TRUE,
        response_format |-> "structured_analysis",
        capabilities |-> <<"market_intelligence", "strategy_development",
                           "execution_planning", "risk_assessment">>,
        disclaimer |-> "Educational purposes only - not licensed financial advice",
        response_stats |-> [character_count |-> Len(advisor_response),
                            processing_timestamp |-> now2]]]

\* the dict format_agentcore_response builds; now1 and now2 are its two
\* readings of the clock
format_agentcore_response(advisor_response, now1, now2) ==
    LET response_length ==
            IF advisor_response # <<>> THEN Len(advisor_response) ELSE 0
    IN [result |-> advisor_response,
        timestamp |-> now1,
        system |-> SystemName,
        metadata |->
          [version |-> "1.0.0",
           agent_type |-> "financial_advisor",
           educational_disclaimer |-> TRUE,
           response_format |-> "structured_analysis",
           capabilities |-> <<"market_intelligence", "strategy_development",
                              "execution_planning", "risk_assessment">>,
           disclaimer |-> "Educational purposes only - not licensed financial advice",
           response_stats |-> [character_count |-> response_length,
                               processing_timestamp |-> now2]]]

MsgInvalidRequest ==
    <<"I", "n", "v", "a", "l", "i", "d", " ", "r", "e", "q", "u", "e", "s",
      "t", " ", "f", "o", "r", "m", "a", "t", ":", " ">>

MsgRateLimit ==
    <<"W", "e", "b", " ", "s", "e", "a", "r", "c", "h", " ", "r", "a", "t",
      "e", " ", "l", "i", "m", "i", "t", " ", "e", "x", "c", "e", "e", "d",
      "e", "d", ".", " ", "P", "l", "e", "a", "s", "e", " ", "t", "r", "y",
      " ", "a", "g", "a", "i", "n", " ", "a", "f", "t", "e", "r", " ", "a",
      " ", "s", "h", "o", "r", "t", " ", "d", "e", "l", "a", "y", ".">>

MsgWebSearch ==
    <<"W", "e", "b", " ", "s", "e", "a", "r", "c", "h", " ", "s", "e", "r",
      "v", "i", "c", "e", " ", "t", "e", "m", "p", "o", "r", "a", "r", "i",
      "l", "y", " ", "u", "n", "a", "v", "a", "i", "l", "a", "b", "l", "e",
      ".", " ", "A", "n", "a", "l", "y", "s", "i", "s", " ", "m", "a", "y",
      " ", "b", "e", " ", "l", "i", "m", "i", "t", "e", "d", ".">>

MsgAgentParameter ==
    <<"A", "g", "e", "n", "t", " ", "c", "o", "n", "f", "i", "g", "u", "r",
      "a", "t", "i", "o", "n", " ", "e", "r", "r", "o", "r", ".", " ", "U",
      "s", "i", "n", "g", " ", "f", "a", "l", "l", "b", "a", "c", "k", " ",
      "m", "e", "c", "h", "a", "n", "i", "s", "m", "s", ".">>

MsgMemory ==
    <<"R", "e", "q", "u", "e", "s", "t", " ", "t", "o", "o", " ", "l", "a",
      "r", "g", "e", ".", " ", "P", "l", "e", "a", "s", "e", " ", "t", "r",
      "y", " ", "w", "i", "t", "h", " ", "a", " ", "s", "h", "o", "r", "t",
      "e", "r", " ", "q", "u", "e", "r", "y", ".">>

MsgConnection ==
    <<"N", "e", "t", "w", "o", "r", "k", " ", "c", "o", "n", "n", "e", "c",
      "t", "i", "v", "i", "t", "y", " ", "i", "s", "s", "u", "e", ".", " ",
      "P", "l", "e", "a", "s", "e", " ", "t", "r", "y", " ", "a", "g", "a",
      "i", "n", ".">>

MsgTimeout ==
    <<"R", "e", "q", "u", "e", "s", "t", " ", "t", "i", "m", "e", "o", "u",
      "t", ".", " ", "T", "h", "e", " ", "a", "n", "a", "l", "y", "s", "i",
      "s", " ", "i", "s", " ", "t", "a", "k", "i", "n", "g", " ", "l", "o",
      "n", "g", "e", "r", " ", "t", "h", "a", "n", " ", "e", "x", "p", "e",
      "c", "t", "e", "d", ".">>

MsgPermission ==
    <<"A", "c", "c", "e", "s", "s", " ", "d", "e", "n", "i", "e", "d", ".",
      " ", "P", "l", "e", "a", "s", "e", " ", "c", "h", "e", "c", "k", " ",
      "y", "o", "u", "r", " ", "p", "e", "r", "m", "i", "s", "s", "i", "o",
      "n", "s", ".">>

MsgSystem ==
    <<"A", "n", " ", "u", "n", "e", "x", "p", "e", "c", "t", "e", "d", " ",
      "e", "r", "r", "o", "r", " ", "o", "c", "c", "u", "r", "r", "e", "d",
      " ", "p", "r", "o", "c", "e", "s", "s", "i", "n", "g", " ", "y", "o",
      "u", "r", " ", "f", "i", "n", "a", "n", "c", "i", "a", "l", " ", "a",
      "d", "v", "i", "s", "o", "r", "y", " ", "r", "e", "q", "u", "e", "s",
      "t">>

\* the dict every handler of invoke returns
error_envelope(message, error_type, now, metadata) ==
    [error |-> message, error_type |-> error_type, timestamp |-> now,
     system |-> SystemName, metadata |-> metadata]

\* what invoke gives its caller: a dict, or an exception no handler caught
Envelope(d) == [raised |-> FALSE, value |-> d]

Uncaught(e) == [raised |-> TRUE, value |-> e]

\* the except clauses of invoke, in their order
invoke_handlers_NoCatchAll ==
    <<"ValueError", "RatelimitException", "DuckDuckGoSearchException",
      "TypeError", "MemoryError", "ConnectionError", "TimeoutError",
      "PermissionError">>

\* the clauses with the one for the search exception above the one for its
\* rate-limit subclass
invoke_handlers_ProviderBeforeRatelimit ==
    <<"ValueError", "DuckDuckGoSearchException", "RatelimitException",
      "TypeError", "MemoryError", "ConnectionError", "TimeoutError",
      "PermissionError", "Exception">>

invoke_handlers ==
    <<"ValueError", "RatelimitException", "DuckDuckGoSearchException",
      "TypeError", "MemoryError", "ConnectionError", "TimeoutError",
      "PermissionError", "Exception">>

\* the dict the except clause for `handler` returns for the exception e
handler_envelope(handler, e, now) ==
    CASE handler = "ValueError" ->
           error_envelope(MsgInvalidRequest \o e.msg, "validation_error", now,
            [error_category |-> "payload_validation", recoverable |-> TRUE,
             suggestion |-> "Please check your request format and try again"])
      [] handler = "RatelimitException" ->
           error_envelope(MsgRateLimit, "rate_limit_error", now,
            [error_category |-> "web_search_rate_limit", recoverable |-> TRUE,
             retry_after_seconds |-> 60,
             existing_mechanism |-> "websearch() tool handles RatelimitException gracefully",
             suggestion |-> "Please wait a minute and try your request again"])
      [] handler = "DuckDuckGoSearchException" ->
           error_envelope(MsgWebSearch, "web_search_error", now,
            [error_category |-> "web_search_failure", recoverable |-> TRUE,
             fallback_available |-> TRUE,
             existing_mechanism |-> "websearch() tool handles DuckDuckGoSearchException with informative error messages",
             suggestion |-> "The system will attempt analysis with available data"])
      [] handler = "TypeError" ->
           error_envelope(MsgAgentParameter, "agent_parameter_error", now,
            [error_category |-> "agent_invocation", recoverable |-> TRUE,
             fallback_engaged |-> TRUE,
             existing_mechanism |-> "invoke_agent() function tries multiple parameter formats for model compatibility",
             fallback_sequence |-> <<"max_output_tokens", "max_tokens",
                                     "generation_config", "inference_params",
                                     "no-kwargs">>,
             suggestion |-> "The system is using fallback mechanisms to process your request"])
      [] handler = "MemoryError" ->
           error_envelope(MsgMemory, "memory_error", now,
            [error_category |-> "token_limit_exceeded", recoverable |-> TRUE,
             suggestion |-> "Please shorten your query and try again"])
      [] handler = "ConnectionError" ->
           error_envelope(MsgConnection, "connection_error", now,
            [error_category |-> "network_connectivity", recoverable |-> TRUE,
             suggestion |-> "Please check your connection and try again"])
      [] handler = "TimeoutError" ->
           error_envelope(MsgTimeout, "timeout_error", now,
            [error_category |-> "request_timeout", recoverable |-> TRUE,
             suggestion |-> "Please try again or simplify your request"])
      [] handler = "PermissionError" ->
           error_envelope(MsgPermission, "permission_error", now,
            [error_category |-> "access_control", recoverable |-> FALSE,
             suggestion |-> "Please contact support if you believe this is an error"])
      [] handler = "Exception" ->
           error_envelope(MsgSystem, "system_error", now,
            [error_category |-> "system_error", error_class |-> e.cls,
             recoverable |-> FALSE,
             suggestion |-> "Please try again later or contact support if the issue persists"])

\* an exception e raised in the try body of invoke goes to the first except
\* clause whose class it is an instance of, and propagates when there is none
invoke_except(e, now) ==
    LET matching == {n \in 1..Len(invoke_handlers) :
                        IsInstance(e.cls, invoke_handlers[n])}
    IN IF matching = {}
       THEN Uncaught(e)
       ELSE LET first == CHOOSE n \in matching : \A m \in matching : n <= m
            IN Envelope(handler_envelope(invoke_handlers[first], e, now))

(***************************************************************************)
(* advisor.analyze and invoke_financial_advisor_with_logging               *)
(***************************************************************************)
\* str(self.agent(user_query)) returns a text or raises
\* the texts: empty, plain, ending in a newline, and failure text of a
\* specialist passed on by the orchestrator
AnalyzeTexts ==
    {<<>>, Ramp(ShortLen), Ramp(ShortLen) \o <<"\n">>,
     ErrorPrefix \o Fill("b", ShortLen)}

AnalyzeErrorClasses ==
    {"ValueError", "UnicodeDecodeError", "RatelimitException",
     "DuckDuckGoSearchException", "TypeError", "MemoryError", "ConnectionError",
     "ConnectionResetError", "TimeoutError", "PermissionError", "OSError",
     "RuntimeError", "KeyError"}

AnalyzeOutcomes ==
    {Returns(t) : t \in AnalyzeTexts}
    \cup {Raises(Exc(c, Fill("e", ShortLen))) : c \in AnalyzeErrorClasses}

\* a wrapper that reports the exception as its text instead of re-raising
invoke_financial_advisor_with_logging_ReturnsErrorText(outcome) ==
    [kind |-> "return", cls |-> "str", value |-> outcome.value]

\* the wrapper logs, returns the response and re-raises any exception
invoke_financial_advisor_with_logging(outcome) ==
    IF outcome.kind = "return"
    THEN [kind |-> "return", cls |-> "str", value |-> outcome.value]
    ELSE [kind |-> "raise", cls |-> outcome.cls, value |-> outcome.value]

(***************************************************************************)
(* invoke, the AgentCore entry point                                       *)
(***************************************************************************)
\* the values datetime.now(timezone.utc).isoformat() takes, in time order
Instants == <<"2025-01-01T00:00:00+00:00", "2025-01-01T00:00:01+00:00">>

\* invoke that validates the payload but hands the prompt as sent to the
\* orchestrator
InvokeValidate_PassesRawPrompt ==
    /\ rq.pc = "received"
    /\ LET v == process_agentcore_payload(rq.payload)
       IN IF v.ok
          THEN rq' = [rq EXCEPT !.pc = "analyzing", !.validated = TRUE,
                                !.user_query = v.value,
                                !.analyze_calls =
                                   Append(@, dict_get(rq.payload, "prompt",
                                                      StrValue(<<>>)).chars)]
          ELSE \E i \in 1..Len(Instants) :
                  rq' = [rq EXCEPT !.pc = "done", !.error = v.value,
                                   !.ret = invoke_except(v.value, Instants[i])]
    /\ UNCHANGED <<run, ia, ws, sched>>

\* the try body up to the orchestrator call: validation; a rejected payload
\* goes to the ValueError handler and invoke returns
InvokeValidate ==
    /\ rq.pc = "received"
    /\ LET v == process_agentcore_payload(rq.payload)
       IN IF v.ok
          THEN rq' = [rq EXCEPT !.pc = "analyzing", !.validated = TRUE,
                                !.user_query = v.value,
                                !.analyze_calls = Append(@, v.value)]
          ELSE \E i \in 1..Len(Instants) :
                  rq' = [rq EXCEPT !.pc = "done", !.error = v.value,
                                   !.ret = invoke_except(v.value, Instants[i])]
    /\ UNCHANGED <<run, ia, ws, sched>>

\* the orchestrator returned: format the response and return it
AnalyzeReturns ==
    /\ rq.pc = "analyzing"
    /\ ia.status = "idle"
    /\ \E outcome \in AnalyzeOutcomes, i \in 1..Len(Instants), j \in 1..Len(Instants) :
         /\ outcome.kind = "return"
         /\ i <= j
         /\ LET response == invoke_financial_advisor_with_logging(outcome)
            IN rq' = [rq EXCEPT
                        !.pc = "done", !.outcome = outcome,
                        !.ret = IF response.kind = "return"
                                THEN Envelope(format_agentcore_response(
                                        response.value, Instants[i], Instants[j]))
                                ELSE invoke_except(Exc(response.cls, response.value),
                                                   Instants[j])]
    /\ UNCHANGED <<run, ia, ws, sched>>

\* the orchestrator raised: the first matching handler builds the envelope
AnalyzeRaises ==
    /\ rq.pc = "analyzing"
    /\ ia.status = "idle"
    /\ \E outcome \in AnalyzeOutcomes, i \in 1..Len(Instants) :
         /\ outcome.kind = "raise"
         /\ LET response == invoke_financial_advisor_with_logging(outcome)
            IN rq' = [rq EXCEPT
                        !.pc = "done", !.outcome = outcome,
                        !.error = Exc(response.cls, response.value),
                        !.ret = IF response.kind = "return"
                                THEN Envelope(format_agentcore_response(
                                        response.value, Instants[i], Instants[i]))
                                ELSE invoke_except(Exc(response.cls, response.value),
                                                   Instants[i])]
    /\ UNCHANGED <<run, ia, ws, sched>>

\* prompts without their surrounding whitespace: clean ones, near misses of
\* the deny list, and deny-list patterns in several letter cases
ShortBodies ==
    {<<>>,
     <<"A", "A", "P", "L">>,
     <<"a", " ", "b">>,
     <<"e", "v", "a", "l">>,
     <<"s", "c", "r", "i", "p", "t", ">">>,
     <<"o", "s", " ", "s", "y", "s", "t", "e", "m">>,
     <<"e", "v", "a", "l", "(">>,
     <<"E", "V", "A", "L", "(", "x">>,
     <<"x", "<", "S", "c", "R", "i", "P", "t", ">">>,
     <<"j", "a", "v", "a", "s", "c", "r", "i", "p", "t", ":">>,
     <<"e", "x", "e", "c", "(">>,
     <<"_", "_", "i", "m", "p", "o", "r", "t", "_", "_">>,
     <<"s", "u", "b", "p", "r", "o", "c", "e", "s", "s">>,
     <<"O", "S", ".", "S", "y", "s", "t", "e", "m">>}

DeniedTail ==
    <<"e", "V", "a", "L", "(">>

\* a prompt of n characters ending in `tail`
LongBody(n, tail) == Fill("A", n - Len(tail)) \o tail

\* the prompt strings of the model: every short body and long bodies around
\* the length limit, each between 0..MaxPad leading and trailing whitespace
\* characters; the 6000 characters of the tests; whitespace alone
Prompts ==
    {Fill(" ", l) \o b \o Fill("\n", t) :
        b \in ShortBodies, l \in 0..MaxPad, t \in 0..MaxPad}
    \cup {Fill("\t", l) \o LongBody(MAX_INPUT_LENGTH + d, tail) \o Fill(" ", t) :
            d \in (0 - MaxOver)..MaxOver, tail \in {<<>>, DeniedTail},
            l \in 0..MaxPad, t \in 0..MaxPad}
    \cup {Fill("A", 6000), Fill(" ", MAX_INPUT_LENGTH + MaxOver)}

\* what the caller may send: dicts with a prompt of any type, dicts without
\* one, and values that are no dict
Payloads ==
    {DictValue({Item("prompt", StrValue(p))}) : p \in Prompts}
    \cup {DictValue({Item("prompt", v)}) :
            v \in {NoneValue, IntValue(0), IntValue(123), ListValue(<<>>),
                   ListValue(<<"x">>)}}
    \cup {DictValue({}), DictValue({Item("data", StrValue(<<"t", "e", "s", "t">>))}),
          StrValue(<<"n", "o", "t", " ", "a", " ", "d", "i", "c", "t">>),
          NoneValue, ListValue(<<>>)}

\* invoke(payload) entered.  tool is the specialist tool the orchestrator
\* agent is inside ("" when in none), tool_log the specialist calls it has
\* made: the tool and the class of the outcome of each capability call
NewRequest(p) ==
    [pc |-> "received", payload |-> p, validated |-> FALSE,
     user_query |-> <<>>, analyze_calls |-> <<>>, outcome |-> <<>>,
     error |-> <<>>, ret |-> <<>>, tool |-> "", tool_log |-> <<>>]

InitInvoke ==
    /\ \E p \in Payloads : rq = NewRequest(p)
    /\ run = IdleRun
    /\ ia = IdleAgent
    /\ ws = IdleSearch
    /\ sched = SingleRequest

NextInvoke ==
    \/ InvokeValidate
    \/ AnalyzeReturns
    \/ AnalyzeRaises

SpecInvoke == InitInvoke /\ [][NextInvoke]_vars

(***************************************************************************)
(* A request with the specialist tools the orchestrator agent calls while  *)
(* advisor.analyze runs: self.agent(user_query) may call any of its four   *)
(* tools, with arguments of its choosing, before it returns or raises.     *)
(***************************************************************************)
\* the tool calls the orchestrator agent may make
OrchestratorToolCalls ==
    {market_intel_tool("AAPL", 7),
     strategy_architect_tool("AAPL", "Moderate", "Medium-term"),
     execution_planner_tool("AAPL", Ramp(ShortLen)),
     risk_assessor_tool("AAPL", Ramp(ShortLen), Ramp(ShortLen), Ramp(ShortLen))}

\* the orchestrator agent calls one of its tools
OrchestratorCallsTool ==
    /\ rq.pc = "analyzing"
    /\ ia.status = "idle"
    /\ Len(rq.tool_log) < MaxToolCalls
    /\ \E call \in OrchestratorToolCalls :
         /\ ia' = call.enters
         /\ rq' = [rq EXCEPT !.tool = call.tool]
    /\ UNCHANGED <<run, ws, sched>>

\* the tool comes back to the orchestrator agent with the text invoke_agent
\* returned; an exception of the tool leaves self.agent(...), analyze and
\* the wrapper, and reaches the handlers of invoke
ToolReturns ==
    /\ rq.pc = "analyzing"
    /\ ia.status \in {"returned", "raised"}
    /\ LET entry == [tool |-> rq.tool,
                     outcomes |-> [k \in 1..Len(ia.calls) |-> ia.calls[k].outcome.cls]]
           last == ia.calls[Len(ia.calls)].outcome
       IN IF ia.status = "returned"
          THEN rq' = [rq EXCEPT !.tool = "", !.tool_log = Append(@, entry)]
          ELSE \E i \in 1..Len(Instants) :
                  rq' = [rq EXCEPT
                           !.pc = "done", !.tool = "",
                           !.tool_log = Append(@, entry),
                           !.error = Exc(last.cls, last.value),
                           !.ret = invoke_except(Exc(last.cls, last.value),
                                                 Instants[i])]
    /\ ia' = IdleAgent
    /\ UNCHANGED <<run, ws, sched>>

\* a prompt the validator trims and accepts, one it rejects for its content,
\* an empty one, and a payload without a prompt
RequestPayloads ==
    {DictValue({Item("prompt", StrValue(<<" ", "A", "A", "P", "L", "\n">>))}),
     DictValue({Item("prompt", StrValue(<<"e", "v", "a", "l", "(">>))}),
     DictValue({Item("prompt", StrValue(<<>>))}),
     DictValue({})}

InitRequest ==
    /\ \E p \in RequestPayloads : rq = NewRequest(p)
    /\ run = IdleRun
    /\ ia = IdleAgent
    /\ ws = IdleSearch
    /\ sched = SingleRequest

NextRequest ==
    \/ InvokeValidate
    \/ OrchestratorCallsTool
    \/ AgentCall
    \/ ToolReturns
    \/ AnalyzeReturns
    \/ AnalyzeRaises

SpecRequest == InitRequest /\ [][NextRequest]_vars

(***************************************************************************)
(* The two entry points of the orchestrator side by side: a run of         *)
(* run_complete_analysis, or a request that goes through analyze           *)
(***************************************************************************)
InitEntrypoints == Init \/ InitRequest

NextEntrypoints == Next \/ NextRequest

SpecEntrypoints == InitEntrypoints /\ [][NextEntrypoints]_vars

(***************************************************************************)
(* Properties of invoke_agent and run_complete_analysis                    *)
(***************************************************************************)
LastCall == ia.calls[Len(ia.calls)]

IsShapeMismatch(o) == o.kind = "raise" /\ o.cls = "TypeError"

\* the number of shape-mismatch failures at the head of a call log
RECURSIVE LeadingMismatches(_)
LeadingMismatches(calls) ==
    IF calls # <<>> /\ IsShapeMismatch(Head(calls).outcome)
    THEN 1 + LeadingMismatches(Tail(calls))
    ELSE 0

\* C1: invoke_agent never raises to its caller: whatever the outcomes of its
\* capability calls, it has returned after at most five of them, and what it
\* returns is the text of its last call or failure text embedding the
\* exception of its last call.
C1_InvokeAgentNeverRaises ==
    /\ ia.status # "raised"
    /\ run.pc # "Raised"
    /\ ia.status = "running" => Len(ia.calls) < 5
    /\ ia.status = "returned" =>
         \/ LastCall.outcome.kind = "return" /\ ia.result = LastCall.outcome.value
         \/ /\ LastCall.outcome.kind = "raise"
            /\ StartsWith(ia.result, <<"A", "g", "e", "n", "t", " ", "i", "n",
                                       "v", "o", "c", "a", "t", "i", "o", "n",
                                       " ", "e", "r", "r", "o", "r">>)
            /\ Len(ia.result) > Len(LastCall.outcome.value)
            /\ SubSeq(ia.result, Len(ia.result) - Len(LastCall.outcome.value) + 1,
                      Len(ia.result)) = LastCall.outcome.value

\* all five calls raised, the last one a TypeError, and invoke_agent returned
C1_Witness ==
    /\ ia.status = "returned"
    /\ Len(ia.calls) = 5
    /\ \A k \in 1..5 : IsShapeMismatch(ia.calls[k].outcome)

ExpectedOrder ==
    <<"market_intel_tool", "strategy_architect_tool", "execution_planner_tool",
      "risk_assessor_tool">>

\* C2: the specialist calls are issued strictly one after the other in the
\* order Market, Strategy, Execution, Risk: the calls and returns alternate
\* in that order, at most one call is in flight, a capability call happens
\* only inside the call in flight, and a call returns (and the next starts)
\* only once invoke_agent has returned.
C2_StagesStrictlySequential ==
    /\ [](/\ Len(run.events) <= 8
          /\ \A i \in 1..Len(run.events) :
               /\ run.events[i].ev = (IF i % 2 = 1 THEN "call" ELSE "return")
               /\ run.events[i].tool = ExpectedOrder[(i + 1) \div 2]
          /\ (ia.status # "idle") => (Len(run.events) % 2 = 1)
          /\ (Len(run.events) % 2 = 1) =>
                run.tool = run.events[Len(run.events)].tool)
    /\ [][(run.events' # run.events /\ run.events # <<>>) =>
             ia.status = "returned"]_vars

\* the Risk call has been issued, after Execution returned
C2_Witness ==
    /\ Len(run.events) = 7
    /\ run.events[7].tool = "risk_assessor_tool"
    /\ run.events[6] = Returned("execution_planner_tool", run.locals.execution_plan)

\* `passed` is the first min(len(original), 2000) characters of `original`
IsCutOf(passed, original) ==
    /\ Len(passed) = Min(Len(original), 2000)
    /\ \A k \in 1..Len(passed) : passed[k] = original[k]

\* C3: every stage output handed downstream (the strategies to Execution;
\* the market analysis, the strategies and the execution plan to Risk) is
\* the prefix of the original of length min(len, 2000), both as the tool's
\* argument and as embedded in the prompt.
C3_DownstreamInputIsPrefix ==
    /\ \A i \in 1..Len(run.events) :
         LET e == run.events[i] IN
         /\ (e.ev = "call" /\ e.tool = "execution_planner_tool") =>
               IsCutOf(e.args.strategy_summary, run.locals.strategies)
         /\ (e.ev = "call" /\ e.tool = "risk_assessor_tool") =>
               /\ IsCutOf(e.args.market_summary, run.locals.market_analysis)
               /\ IsCutOf(e.args.strategies_summary, run.locals.strategies)
               /\ IsCutOf(e.args.execution_plan, run.locals.execution_plan)
    /\ ia.agent = "execution_planner" =>
         IsCutOf(ia.prompt.strategy_summary, run.locals.strategies)
    /\ ia.agent = "risk_assessor" =>
         /\ IsCutOf(ia.prompt.market_summary, run.locals.market_analysis)
         /\ IsCutOf(ia.prompt.strategies_summary, run.locals.strategies)
         /\ IsCutOf(ia.prompt.execution_plan, run.locals.execution_plan)

\* Risk was called with a cut execution plan and an uncut market analysis
C3_Witness ==
    /\ run.pc = "Risk"
    /\ Len(run.locals.execution_plan) > 2000
    /\ Len(ia.prompt.execution_plan) = 2000
    /\ Len(run.locals.strategies) > 2000
    /\ Len(run.locals.market_analysis) < 2000
    /\ ia.prompt.market_summary = run.locals.market_analysis

CallsOf(tool) ==
    Cardinality({i \in 1..Len(run.events) :
                   run.events[i].ev = "call" /\ run.events[i].tool = tool})

NextStatement(pc) ==
    CASE pc = "Received" -> "Market"
      [] pc = "Market" -> "Strategy"
      [] pc = "Strategy" -> "Execution"
      [] pc = "Execution" -> "Risk"
      [] pc = "Risk" -> "Complete"
      [] OTHER -> "none"

IsFailureText(t) ==
    StartsWith(t, <<"A", "g", "e", "n", "t", " ", "i", "n", "v", "o", "c", "a",
                    "t", "i", "o", "n", " ", "e", "r", "r", "o", "r">>)

\* C4: run_complete_analysis never retries and never branches on failure:
\* no specialist is called twice, a completed run has called each of the
\* four exactly once, the run only ever moves to the next statement, and a
\* tool that has returned (failure text or not) lets the run move on.
C4_NoRetryNoBranch ==
    /\ [](/\ \A k \in 1..4 : CallsOf(ExpectedOrder[k]) <= 1
          /\ run.pc = "Complete" => \A k \in 1..4 : CallsOf(ExpectedOrder[k]) = 1
          /\ (run.tool # "" /\ ia.status = "returned") =>
                ENABLED (CallStrategy \/ CallExecution \/ CallRisk \/ Complete))
    /\ [][run.pc' # run.pc => run.pc' = NextStatement(run.pc)]_vars

\* a run completed although its first three stages returned failure text
C4_Witness ==
    /\ run.pc = "Complete"
    /\ IsFailureText(run.out.market_analysis)
    /\ IsFailureText(run.out.strategies)
    /\ IsFailureText(run.out.execution_plan)
    /\ \A k \in 1..4 : CallsOf(ExpectedOrder[k]) = 1

\* C5: when all four keyed variants raised shape-mismatch and the fifth
\* call returned text, that call was made with no optional arguments and
\* invoke_agent has returned exactly its text.
C5_BareFallbackReturnsText ==
    (/\ Len(ia.calls) >= 5
     /\ \A k \in 1..4 : IsShapeMismatch(ia.calls[k].outcome)
     /\ ia.calls[5].outcome.kind = "return") =>
        /\ Len(ia.calls) = 5
        /\ ia.calls[5].kwargs = {}
        /\ \A k \in 1..4 : ia.calls[k].kwargs # {}
        /\ ia.status = "returned"
        /\ ia.result = ia.calls[5].outcome.value

\* the bare call succeeded after four shape mismatches
C5_Witness ==
    /\ Len(ia.calls) = 5
    /\ \A k \in 1..4 : IsShapeMismatch(ia.calls[k].outcome)
    /\ ia.calls[5].outcome.kind = "return"
    /\ ia.status = "returned"
    /\ Len(ia.result) > 2000

\* C6 as stated: once invoke_agent has returned, the number of calls is 1
\* plus the number of leading shape-mismatch failures and at most 5, and no
\* call follows an attempt that returned text.
C6_Original ==
    /\ Len(ia.calls) <= 5
    /\ \A k \in 1..(Len(ia.calls) - 1) : ia.calls[k].outcome.kind # "return"
    /\ ia.status = "returned" =>
         Len(ia.calls) = 1 + LeadingMismatches(ia.calls)

\* C6 as amended: the number of calls is 1 plus the number of leading
\* shape-mismatch failures among the four keyed attempts (5 when the bare
\* call fails with shape-mismatch too); it is at most 5, every call but the
\* last failed with shape-mismatch, and no call follows a returned text.
C6_CallCount ==
    /\ Len(ia.calls) <= 5
    /\ \A k \in 1..(Len(ia.calls) - 1) : IsShapeMismatch(ia.calls[k].outcome)
    /\ ia.status = "returned" =>
         Len(ia.calls) =
            1 + LeadingMismatches(SubSeq(ia.calls, 1, Min(4, Len(ia.calls))))
    /\ (ia.status = "returned" /\ ~IsShapeMismatch(ia.calls[1].outcome)) =>
         Len(ia.calls) = 1

\* invoke_agent returned at its third attempt, after two shape mismatches
C6_Witness ==
    /\ ia.status = "returned"
    /\ Len(ia.calls) = 3
    /\ LeadingMismatches(ia.calls) = 2
    /\ ia.calls[3].outcome.cls = "RuntimeError"

(***************************************************************************)
(* Properties of websearch                                                 *)
(***************************************************************************)
FailureClass(cls) ==
    IF IsInstance(cls, "RatelimitException") THEN "rate-limit"
    ELSE IF IsInstance(cls, "DuckDuckGoSearchException") THEN "provider-error"
    ELSE "other"

\* C7: websearch never raises: when its search call raised, it has returned
\* a non-empty string, and that string differs from every string it returns
\* for a failure of another of the three classes (rate limit, provider
\* error, any other exception).
C7_WebsearchNeverRaises ==
    ws.pc = "done" =>
        /\ ~ws.ret.raised
        /\ ws.outcome.kind = "raise" =>
             /\ ws.ret.type = "str"
             /\ Len(ws.ret.value) > 0
             /\ \A o \in SearchOutcomes :
                  (o.kind = "raise" /\ FailureClass(o.cls) # FailureClass(ws.outcome.cls))
                     => websearch(o) # ws.ret

\* a rate-limit failure carrying a message was turned into a string
C7_Witness ==
    /\ ws.pc = "done"
    /\ ws.outcome.kind = "raise"
    /\ ws.outcome.cls = "RatelimitException"
    /\ ws.outcome.value # <<>>
    /\ ws.ret.type = "str"

(***************************************************************************)
(* Properties of process_agentcore_payload and invoke                      *)
(***************************************************************************)
\* the payload has been validated and nothing else has happened since
JustValidated ==
    \/ rq.pc = "analyzing"
    \/ rq.pc = "done" /\ ~rq.validated

\* the validator raised ValueError / invoke answered its rejection
RejectedByValidator ==
    /\ rq.pc = "done"
    /\ ~rq.validated
    /\ rq.error.cls = "ValueError"

IsDict(payload) == payload.type = "dict"

HasPrompt(payload) ==
    IsDict(payload) /\ \E it \in payload.items : it.key = "prompt"

PromptOf(payload) == (CHOOSE it \in payload.items : it.key = "prompt").val

HasStringPrompt(payload) ==
    HasPrompt(payload) /\ PromptOf(payload).type = "str"

IsBlank(s) == \A i \in 1..Len(s) : s[i] \in Whitespace

\* the number of whitespace characters s begins with / ends with
LeadingBlanks(s) ==
    Cardinality({i \in 1..Len(s) : \A j \in 1..i : s[j] \in Whitespace})

TrailingBlanks(s) ==
    Cardinality({i \in 1..Len(s) : \A j \in i..Len(s) : s[j] \in Whitespace})

\* s without the whitespace around it
Trimmed(s) ==
    IF IsBlank(s) THEN <<>>
    ELSE SubSeq(s, LeadingBlanks(s) + 1, Len(s) - TrailingBlanks(s))

CasePairs == {<<UpperCase[n], LowerCase[n]>> : n \in 1..Len(UpperCase)}

SameLetter(a, b) == a = b \/ <<a, b>> \in CasePairs \/ <<b, a>> \in CasePairs

\* s holds a deny-list substring, in whatever letter case
HasDenied(s) ==
    \E n \in 1..Len(suspicious_patterns) :
       \E i \in 1..(Len(s) - Len(suspicious_patterns[n]) + 1) :
          \A j \in 1..Len(suspicious_patterns[n]) :
             SameLetter(s[i + j - 1], suspicious_patterns[n][j])

\* the payload in hand is one the original C8 says is rejected: the length
\* of the prompt is the length of the prompt as sent
C8_MustRejectAsSent(payload) ==
    \/ ~IsDict(payload)
    \/ ~HasPrompt(payload)
    \/ ~HasStringPrompt(payload)
    \/ IsBlank(PromptOf(payload).chars)
    \/ Len(PromptOf(payload).chars) > 5000

\* C8 as stated: a string prompt that is non-empty after trimming, at most
\* 5000 characters and free of deny-list substrings is accepted and returned
\* trimmed; a payload that is no dict, or whose prompt is missing, empty,
\* all-whitespace, non-string or longer than 5000 characters is rejected
\* with ValueError.
C8_Original ==
    JustValidated =>
       LET payload == rq.payload
       IN /\ ( /\ HasStringPrompt(payload)
               /\ ~IsBlank(PromptOf(payload).chars)
               /\ Len(PromptOf(payload).chars) <= 5000
               /\ ~HasDenied(PromptOf(payload).chars) )
              => /\ rq.pc = "analyzing"
                 /\ rq.user_query = Trimmed(PromptOf(payload).chars)
          /\ C8_MustRejectAsSent(payload) => RejectedByValidator

\* C8 (amended): process_agentcore_payload accepts every payload whose
\* prompt is a string that, once trimmed, is non-empty, at most 5000
\* characters long and free of deny-list substrings in any letter case, and
\* returns the trimmed prompt; it rejects with ValueError every payload
\* that is no dict and every payload whose prompt is missing, empty,
\* all-whitespace, non-string, or longer than 5000 characters once trimmed.
C8_ValidatorAcceptsAndRejects ==
    JustValidated =>
       LET payload == rq.payload
       IN /\ ( /\ HasStringPrompt(payload)
               /\ ~IsBlank(PromptOf(payload).chars)
               /\ Len(Trimmed(PromptOf(payload).chars)) <= 5000
               /\ ~HasDenied(PromptOf(payload).chars) )
              => /\ rq.pc = "analyzing"
                 /\ rq.user_query = Trimmed(PromptOf(payload).chars)
          /\ ( \/ ~IsDict(payload)
               \/ ~HasPrompt(payload)
               \/ ~HasStringPrompt(payload)
               \/ IsBlank(PromptOf(payload).chars)
               \/ Len(Trimmed(PromptOf(payload).chars)) > 5000 )
              => RejectedByValidator

\* a prompt of more than 5000 characters as sent was accepted, and the
\* query handed on is its 5000 trimmed characters
C8_Witness ==
    /\ rq.pc = "analyzing"
    /\ HasStringPrompt(rq.payload)
    /\ Len(PromptOf(rq.payload).chars) > 5000
    /\ Len(rq.user_query) = 5000
    /\ rq.user_query # PromptOf(rq.payload).chars

ErrorTypes ==
    {"validation_error", "rate_limit_error", "web_search_error",
     "agent_parameter_error", "memory_error", "connection_error",
     "timeout_error", "permission_error", "system_error"}

\* C9: invoke never raises: whatever the payload and whether the
\* orchestrator call returned a text or raised an Exception, invoke returns
\* an envelope holding exactly one of the keys result and error, and always
\* timestamp, system = "financial-advisor-multiagent" and metadata; an error
\* envelope has an error_type among the nine fixed ones.
C9_InvokeAlwaysReturnsEnvelope ==
    rq.pc = "done" =>
       /\ ~rq.ret.raised
       /\ LET keys == DOMAIN rq.ret.value
          IN /\ ("result" \in keys) # ("error" \in keys)
             /\ {"timestamp", "system", "metadata"} \subseteq keys
             /\ rq.ret.value.system = "financial-advisor-multiagent"
             /\ "error" \in keys =>
                  /\ "error_type" \in keys
                  /\ rq.ret.value.error_type \in ErrorTypes

\* the orchestrator raised an exception no specific handler names, and
\* invoke returned the system_error envelope
C9_Witness ==
    /\ rq.pc = "done"
    /\ rq.validated
    /\ rq.outcome.kind = "raise"
    /\ rq.outcome.cls = "KeyError"
    /\ ~rq.ret.raised
    /\ "error" \in DOMAIN rq.ret.value
    /\ rq.ret.value.error_type = "system_error"

\* the message names the limit
ReferencesLengthLimit(message) == Contains(message, <<"5", "0", "0", "0">>)

IsValidationErrorEnvelope(ret) ==
    /\ ~ret.raised
    /\ {"error", "error_type"} \subseteq DOMAIN ret.value
    /\ "result" \notin DOMAIN ret.value
    /\ ret.value.error_type = "validation_error"

\* C10 as stated: every payload the validator rejects gets a
\* validation_error envelope, and when the prompt, as sent, exceeds 5000
\* characters the message of that envelope references the length limit.
C10_Original ==
    RejectedByValidator =>
       /\ IsValidationErrorEnvelope(rq.ret)
       /\ ( /\ HasStringPrompt(rq.payload)
            /\ Len(PromptOf(rq.payload).chars) > 5000 )
           => ReferencesLengthLimit(rq.ret.value.error)

\* C10 (amended): for every payload the validator rejects, invoke returns an
\* error envelope with error_type "validation_error"; when the trimmed
\* prompt exceeds 5000 characters the error message references the length
\* limit, also when that prompt holds a deny-list substring.
C10_RejectionIsValidationError ==
    /\ RejectedByValidator =>
         /\ IsValidationErrorEnvelope(rq.ret)
         /\ ( /\ HasStringPrompt(rq.payload)
              /\ Len(Trimmed(PromptOf(rq.payload).chars)) > 5000 )
             => ReferencesLengthLimit(rq.ret.value.error)
    /\ ( /\ JustValidated
         /\ HasStringPrompt(rq.payload)
         /\ Len(Trimmed(PromptOf(rq.payload).chars)) > 5000 )
        => RejectedByValidator

\* a rejected prompt that is too long once trimmed and holds a deny-list
\* substring: the envelope speaks of the length
C10_Witness ==
    /\ RejectedByValidator
    /\ HasStringPrompt(rq.payload)
    /\ Len(Trimmed(PromptOf(rq.payload).chars)) > 5000
    /\ HasDenied(PromptOf(rq.payload).chars)
    /\ IsValidationErrorEnvelope(rq.ret)
    /\ ReferencesLengthLimit(rq.ret.value.error)

\* C11: for every accepted payload for which the orchestrator returns a
\* text t, invoke returns a success envelope (result, no error) whose result
\* is t, character for character, and whose metadata.educational_disclaimer
\* is true.
C11_SuccessEnvelopeCarriesText ==
    (rq.pc = "done" /\ rq.validated /\ rq.outcome.kind = "return") =>
       /\ ~rq.ret.raised
       /\ "result" \in DOMAIN rq.ret.value
       /\ "error" \notin DOMAIN rq.ret.value
       /\ Len(rq.ret.value.result) = Len(rq.outcome.value)
       /\ \A k \in 1..Len(rq.outcome.value) :
             rq.ret.value.result[k] = rq.outcome.value[k]
       /\ rq.ret.value.metadata.educational_disclaimer = TRUE

\* the orchestrator's text ended in a newline, and the envelope holds it
\* with that newline
C11_Witness ==
    /\ rq.pc = "done"
    /\ rq.validated
    /\ rq.outcome.kind = "return"
    /\ Len(rq.outcome.value) > 0
    /\ rq.outcome.value[Len(rq.outcome.value)] = "\n"
    /\ "result" \in DOMAIN rq.ret.value
    /\ rq.ret.value.result = rq.outcome.value

(***************************************************************************)
(* Properties of a request with its specialist tool calls                  *)
(***************************************************************************)
OrchestratorReturned == rq.outcome # <<>> /\ rq.outcome.kind = "return"

OrchestratorRaised == rq.outcome # <<>> /\ rq.outcome.kind = "raise"

IsErrorEnvelope(ret) == ~ret.raised /\ "error" \in DOMAIN ret.value

IsSuccessEnvelope(ret) ==
    /\ ~ret.raised
    /\ "result" \in DOMAIN ret.value
    /\ "error" \notin DOMAIN ret.value

\* the specialist call `entry` of the log failed at every capability call
AllAttemptsFailed(entry) ==
    /\ Len(entry.outcomes) = 5
    /\ \A k \in 1..5 : entry.outcomes[k] # "str"

\* C12 as stated: every payload that passes validation gets a success
\* envelope, whatever fails in the orchestrator, model or search calls.
C12_Original ==
    (rq.pc = "done" /\ rq.validated) => IsSuccessEnvelope(rq.ret)

\* C12 (amended): for every payload that passes validation, invoke returns
\* a success envelope whenever the orchestrator call returns, whatever
\* failed in the model calls of the specialists it used; it returns an
\* error envelope exactly when the validator rejected the payload or the
\* orchestrator call itself raised, and no specialist failure ends the
\* request.
C12_ErrorEnvelopeOnlyFromValidatorOrOrchestrator ==
    rq.pc = "done" =>
       /\ ~rq.ret.raised
       /\ IsErrorEnvelope(rq.ret) <=> (~rq.validated \/ OrchestratorRaised)
       /\ (rq.validated /\ ~OrchestratorRaised) =>
             OrchestratorReturned /\ IsSuccessEnvelope(rq.ret)

\* a specialist failed at all five capability calls, the orchestrator
\* returned, and the request ended with a success envelope
C12_Witness ==
    /\ rq.pc = "done"
    /\ rq.validated
    /\ \E n \in 1..Len(rq.tool_log) : AllAttemptsFailed(rq.tool_log[n])
    /\ OrchestratorReturned
    /\ IsSuccessEnvelope(rq.ret)

\* C13 as stated: neither entry point ends in a failure state of its own:
\* run_complete_analysis never ends by raising, and neither does analyze.
C13_Original ==
    /\ run.pc # "Raised"
    /\ (rq.pc = "done" /\ rq.validated) => OrchestratorReturned

\* C13 (amended): run_complete_analysis never ends in a failure state of
\* its own: a failed model call comes back from invoke_agent as failure
\* text and the run goes on.  analyze does the same for the model calls of
\* the specialist tools, which never end it; but when the orchestrator
\* agent's own call raises, analyze ends by raising that exception.
C13_FailuresBecomeTextExceptOrchestratorCall ==
    /\ run.pc # "Raised"
    /\ ia.status # "raised"
    /\ (ia.status = "returned" /\ LastCall.outcome.kind = "raise") =>
          IsFailureText(ia.result)
    /\ run.pc = "Complete" =>
          \A k \in 1..4 : CallsOf(ExpectedOrder[k]) = 1
    /\ (rq.pc = "done" /\ rq.validated) =>
          /\ OrchestratorReturned \/ OrchestratorRaised
          /\ OrchestratorReturned =>
                IsSuccessEnvelope(rq.ret) /\ rq.ret.value.result = rq.outcome.value
          /\ OrchestratorRaised =>
                rq.error = Exc(rq.outcome.cls, rq.outcome.value)

\* the orchestrator agent's own call raised after a specialist had failed
\* into text: analyze ended with that exception
C13_Witness ==
    /\ rq.pc = "done"
    /\ rq.validated
    /\ OrchestratorRaised
    /\ rq.outcome.cls = "RuntimeError"
    /\ rq.error.cls = "RuntimeError"
    /\ \E n \in 1..Len(rq.tool_log) :
          rq.tool_log[n].outcomes[Len(rq.tool_log[n].outcomes)] # "str"

IsParameterErrorEnvelope(ret) ==
    IsErrorEnvelope(ret) /\ ret.value.error_type = "agent_parameter_error"

\* the specialist call `entry` of the log met shape-mismatch at every
\* keyed variant and at the no-kwargs call
AllShapesMismatched(entry) ==
    /\ Len(entry.outcomes) = 5
    /\ \A k \in 1..5 : entry.outcomes[k] = "TypeError"

FrameOf(id) ==
    IF sched.current = id THEN [run |-> run, ia |-> ia] ELSE sched.frames[id]

\* the value the k-th specialist of the run returned (k = 1..4)
ReturnedBy(events, k) == events[2 * k].args

\* the first 2000 characters
Cut(t) == SubSeq(t, 1, Min(Len(t), 2000))

\* what request id's run hands to each stage, and what it returns, given
\* nothing but its own arguments and what its own specialists returned
OwnInputsOnly(id) ==
    LET f == FrameOf(id)
        ev == f.run.events
        own == ConcurrentArguments[id]
    IN /\ Len(ev) >= 1 =>
            ev[1].args = [ticker |-> own.ticker, lookback_days |-> own.lookback_days]
       /\ Len(ev) >= 3 =>
            ev[3].args = [ticker |-> own.ticker, risk_attitude |-> own.risk_attitude,
                          horizon |-> own.horizon]
       /\ Len(ev) >= 5 =>
            ev[5].args = [ticker |-> own.ticker,
                          strategy_summary |-> Cut(ReturnedBy(ev, 2))]
       /\ Len(ev) >= 7 =>
            ev[7].args = [ticker |-> own.ticker,
                          market_summary |-> Cut(ReturnedBy(ev, 1)),
                          strategies_summary |-> Cut(ReturnedBy(ev, 2)),
                          execution_plan |-> Cut(ReturnedBy(ev, 3))]
       /\ f.run.pc = "Complete" =>
            f.run.out = [ticker |-> own.ticker,
                         risk_attitude |-> own.risk_attitude,
                         horizon |-> own.horizon,
                         market_analysis |-> ReturnedBy(ev, 1),
                         strategies |-> ReturnedBy(ev, 2),
                         execution_plan |-> ReturnedBy(ev, 3),
                         risk_assessment |-> ReturnedBy(ev, 4)]
       /\ f.ia.status # "idle" =>
            /\ f.ia.prompt.ticker = own.ticker
            /\ Len(ev) % 2 = 1
            /\ \A a \in (DOMAIN f.ia.prompt) \ {"template"} :
                  f.ia.prompt[a] = ev[Len(ev)].args[a]

\* a value a specialist of request id returns in this step is the result
\* of that request's own invoke_agent activation
OwnResponsesOnly(id) ==
    LET f == FrameOf(id)
        g == FrameOf(id)'
        n == Len(f.run.events)
    IN Len(g.run.events) > n =>
          /\ SubSeq(g.run.events, 1, n) = f.run.events
          /\ n % 2 = 1 =>
                /\ f.ia.status = "returned"
                /\ g.run.events[n + 1].args = f.ia.result
                /\ f.ia.result \in
                      {f.ia.calls[Len(f.ia.calls)].outcome.value,
                       ErrorPrefix \o f.ia.calls[Len(f.ia.calls)].outcome.value,
                       ErrorPrefixNoKwargs \o f.ia.calls[Len(f.ia.calls)].outcome.value}

\* C15: with two requests in flight and the scheduler switching between
\* them at any step, what a run hands to each stage and what it returns is
\* fixed by its own arguments and by what its own specialist calls returned,
\* and a value a specialist returns is the result of that run's own
\* capability calls; nothing comes from the other request.
C15_RunsShareNoMutableState ==
    /\ [](\A id \in Requests : OwnInputsOnly(id))
    /\ [][\A id \in Requests : OwnResponsesOnly(id)]_vars

\* both runs completed after the scheduler had switched between them in
\* mid-run, and their stage outputs differ
C15_Witness ==
    /\ sched.switches >= 2
    /\ \A id \in Requests : FrameOf(id).run.pc = "Complete"
    /\ FrameOf(1).run.out.market_analysis # FrameOf(2).run.out.market_analysis
    /\ FrameOf(1).run.out.strategies # FrameOf(2).run.out.strategies
    /\ FrameOf(1).run.out.ticker = "AAPL"
    /\ FrameOf(2).run.out.ticker = "MSFT"

(***************************************************************************)
(* Further properties of invoke_agent and run_complete_analysis            *)
(***************************************************************************)
\* the parameter shapes in the order they are to be tried: the path of keys
\* under which the budget is passed
ExpectedShapes ==
    << <<"max_output_tokens">>,
       <<"max_tokens">>,
       <<"generation_config", "max_output_tokens">>,
       <<"inference_params", "max_tokens">> >>

\* C16: the k-th call of invoke_agent (k = 1..4) passes the caller's budget
\* under the k-th shape of max_output_tokens, max_tokens,
\* generation_config{max_output_tokens}, inference_params{max_tokens}, and
\* the fifth passes nothing; a call is made only while invoke_agent is
\* running and every earlier call raised shape-mismatch, so the bare call
\* comes only after four shape mismatches.
C16_ShapesTriedInOrder ==
    /\ [](/\ Len(ia.calls) <= 5
          /\ ia.status # "idle" => ia.max_tokens = 2000
          /\ \A k \in 1..Len(ia.calls) :
               /\ k <= 4 => ia.calls[k].kwargs =
                              {[path |-> ExpectedShapes[k], value |-> ia.max_tokens]}
               /\ k = 5 => ia.calls[k].kwargs = {}
               /\ \A j \in 1..(k - 1) : IsShapeMismatch(ia.calls[j].outcome))
    /\ [][(ia'.calls # ia.calls /\ ia'.calls # <<>>) =>
             /\ ia.status = "running"
             /\ Len(ia'.calls) = Len(ia.calls) + 1
             /\ SubSeq(ia'.calls, 1, Len(ia.calls)) = ia.calls
             /\ \A j \in 1..Len(ia.calls) : IsShapeMismatch(ia.calls[j].outcome)]_vars

\* the bare call was made, after the four shapes in their order, and failed
\* with another error
C16_Witness ==
    /\ Len(ia.calls) = 5
    /\ ia.calls[1].kwargs = {[path |-> <<"max_output_tokens">>, value |-> 2000]}
    /\ ia.calls[4].kwargs = {[path |-> <<"inference_params", "max_tokens">>, value |-> 2000]}
    /\ ia.calls[5].kwargs = {}
    /\ ia.calls[5].outcome.cls = "RuntimeError"

\* t ends with the text `description`, after something else
EndsWithDescription(t, description) ==
    /\ Len(t) > Len(description)
    /\ SubSeq(t, Len(t) - Len(description) + 1, Len(t)) = description

\* C17: when one of the four keyed attempts fails with anything but
\* shape-mismatch, invoke_agent stops there: that call is its last one (no
\* further variant, no bare call), it has returned, and what it returned is
\* failure text that ends with the description of that failure.
C17_OtherFailureStopsAtOnce ==
    /\ [](\A k \in 1..Min(4, Len(ia.calls)) :
             (ia.calls[k].outcome.kind = "raise"
                /\ ~IsShapeMismatch(ia.calls[k].outcome)) =>
                   /\ Len(ia.calls) = k
                   /\ ia.status = "returned"
                   /\ IsFailureText(ia.result)
                   /\ EndsWithDescription(ia.result, ia.calls[k].outcome.value))
    /\ [][(ia.status = "returned" /\ ia'.calls # <<>>) => ia'.calls = ia.calls]_vars

\* the second keyed attempt failed with another error and invoke_agent
\* returned after two calls
C17_Witness ==
    /\ ia.status = "returned"
    /\ Len(ia.calls) = 2
    /\ IsShapeMismatch(ia.calls[1].outcome)
    /\ ia.calls[2].outcome.kind = "raise"
    /\ ia.calls[2].outcome.cls = "RuntimeError"
    /\ ia.calls[2].kwargs # {}
    /\ IsFailureText(ia.result)

NoKwargsMark == <<"(", "n", "o", "-", "k", "w", "a", "r", "g", "s", ")">>

\* C18: when the four keyed attempts raised shape-mismatch and the bare
\* call raised too, be it another TypeError, that fifth call is the last
\* one, invoke_agent has returned and not raised, and what it returned is
\* failure text holding the mark "(no-kwargs)" and ending with the
\* description of the exception of the bare call.
C18_BareFailureReturnsMarkedText ==
    /\ ia.status # "raised"
    /\ (/\ Len(ia.calls) >= 5
        /\ \A k \in 1..4 : IsShapeMismatch(ia.calls[k].outcome)
        /\ ia.calls[5].outcome.kind = "raise") =>
           /\ Len(ia.calls) = 5
           /\ ia.status = "returned"
           /\ IsFailureText(ia.result)
           /\ Contains(ia.result, NoKwargsMark)
           /\ EndsWithDescription(ia.result, ia.calls[5].outcome.value)

\* the bare call raised TypeError after four shape mismatches, and the
\* marked failure text came back
C18_Witness ==
    /\ Len(ia.calls) = 5
    /\ ia.calls[5].kwargs = {}
    /\ IsShapeMismatch(ia.calls[5].outcome)
    /\ ia.status = "returned"
    /\ Contains(ia.result, NoKwargsMark)

\* C19: the Execution call gets as strategy summary the first 2000
\* characters of what this run's Strategy call returned; the Risk call gets
\* the first 2000 characters of what the Market, Strategy and Execution
\* calls returned, as market summary, strategies summary and execution
\* plan in that order; failure text is passed on like any other value; the
\* Strategy call gets the run's ticker, risk attitude and horizon and
\* nothing of the Market call's output.  The same values stand in the
\* prompts of the specialists.
C19_StagesReceiveUpstreamValues ==
    LET ev == run.events IN
    /\ Len(ev) >= 3 =>
         /\ ev[3].tool = "strategy_architect_tool"
         /\ ev[3].args = [ticker |-> run.locals.ticker,
                          risk_attitude |-> run.locals.risk_attitude,
                          horizon |-> run.locals.horizon]
    /\ Len(ev) >= 5 =>
         /\ ev[4] = Returned("strategy_architect_tool", ReturnedBy(ev, 2))
         /\ ev[5].tool = "execution_planner_tool"
         /\ ev[5].args.strategy_summary = Cut(ReturnedBy(ev, 2))
    /\ Len(ev) >= 7 =>
         /\ ev[2].tool = "market_intel_tool"
         /\ ev[6].tool = "execution_planner_tool"
         /\ ev[7].tool = "risk_assessor_tool"
         /\ ev[7].args.market_summary = Cut(ReturnedBy(ev, 1))
         /\ ev[7].args.strategies_summary = Cut(ReturnedBy(ev, 2))
         /\ ev[7].args.execution_plan = Cut(ReturnedBy(ev, 3))
    /\ ia.agent = "strategy_architect" =>
         DOMAIN ia.prompt = {"template", "ticker", "risk_attitude", "horizon"}
    /\ ia.agent = "execution_planner" =>
         ia.prompt.strategy_summary = Cut(ReturnedBy(ev, 2))
    /\ ia.agent = "risk_assessor" =>
         /\ ia.prompt.market_summary = Cut(ReturnedBy(ev, 1))
         /\ ia.prompt.strategies_summary = Cut(ReturnedBy(ev, 2))
         /\ ia.prompt.execution_plan = Cut(ReturnedBy(ev, 3))

\* Risk was called with the failure text the Market call returned and with
\* the first 2000 characters of a longer Strategy output
C19_Witness ==
    /\ Len(run.events) >= 7
    /\ IsFailureText(ReturnedBy(run.events, 1))
    /\ run.events[7].args.market_summary = ReturnedBy(run.events, 1)
    /\ Len(ReturnedBy(run.events, 2)) > 2000
    /\ Len(run.events[7].args.strategies_summary) = 2000
    /\ ia.agent = "risk_assessor"

(***************************************************************************)
(* The order of validation and orchestration in a request                  *)
(***************************************************************************)
\* C20: in a request the orchestrator is called at most once, only once the
\* validator has accepted the payload, and with the trimmed prompt as its
\* query; a capability call is made, and the orchestrator returns or
\* raises, only in a validated request that is being analyzed; for a
\* rejected payload there is no orchestrator call, no specialist call and no
\* capability call at all.
C20_OrchestratorOnlyAfterValidation ==
    /\ [](/\ Len(rq.analyze_calls) <= 1
          /\ rq.analyze_calls # <<>> =>
               /\ rq.validated
               /\ HasStringPrompt(rq.payload)
               /\ rq.analyze_calls[1] = Trimmed(PromptOf(rq.payload).chars)
          /\ ~rq.validated =>
               /\ rq.analyze_calls = <<>>
               /\ rq.tool_log = <<>>
               /\ rq.outcome = <<>>
               /\ ia = IdleAgent)
    /\ [][/\ rq'.analyze_calls # rq.analyze_calls =>
               (rq.pc = "received" /\ rq'.validated)
          /\ (ia' # ia \/ rq'.outcome # rq.outcome \/ rq'.tool_log # rq.tool_log) =>
               (rq.validated /\ rq.pc = "analyzing" /\ Len(rq.analyze_calls) = 1)]_vars

\* a prompt sent with whitespace around it reached the orchestrator trimmed,
\* once, and a specialist made capability calls before the orchestrator
\* returned
C20_Witness ==
    /\ rq.pc = "done"
    /\ rq.validated
    /\ Len(rq.analyze_calls) = 1
    /\ rq.analyze_calls[1] = <<"A", "A", "P", "L">>
    /\ rq.analyze_calls[1] # PromptOf(rq.payload).chars
    /\ Len(rq.tool_log) = 1
    /\ OrchestratorReturned

(***************************************************************************)
(* Properties of the except clauses of invoke                              *)
(***************************************************************************)
\* C21 as stated: an error envelope with error_type "validation_error" is
\* returned only when the validator rejected the payload; a failure raised
\* after validation has passed is never reported as validation_error.
C21_Original ==
    (rq.pc = "done" /\ IsValidationErrorEnvelope(rq.ret)) => ~rq.validated

\* the error_type the order of the clauses gives an exception of class cls
HandlerOrderErrorType(cls) ==
    IF IsInstance(cls, "ValueError") THEN "validation_error"
    ELSE IF IsInstance(cls, "RatelimitException") THEN "rate_limit_error"
    ELSE IF IsInstance(cls, "DuckDuckGoSearchException") THEN "web_search_error"
    ELSE IF IsInstance(cls, "TypeError") THEN "agent_parameter_error"
    ELSE IF IsInstance(cls, "MemoryError") THEN "memory_error"
    ELSE IF IsInstance(cls, "ConnectionError") THEN "connection_error"
    ELSE IF IsInstance(cls, "TimeoutError") THEN "timeout_error"
    ELSE IF IsInstance(cls, "PermissionError") THEN "permission_error"
    ELSE "system_error"

\* C22: when the orchestrator call raises, invoke returns an error envelope
\* whose error_type is that of the first matching except clause in the
\* order ValueError, RatelimitException, DuckDuckGoSearchException,
\* TypeError, MemoryError, ConnectionError, TimeoutError, PermissionError,
\* and system_error otherwise; a RatelimitException yields rate_limit_error
\* and never web_search_error.
C22_FirstMatchingHandler ==
    (rq.pc = "done" /\ OrchestratorRaised) =>
       /\ IsErrorEnvelope(rq.ret)
       /\ rq.ret.value.error_type = HandlerOrderErrorType(rq.outcome.cls)
       /\ IsInstance(rq.outcome.cls, "RatelimitException") =>
            /\ rq.ret.value.error_type = "rate_limit_error"
            /\ rq.ret.value.error_type # "web_search_error"

\* the orchestrator call raised the rate-limit exception and the request
\* ended with rate_limit_error
C22_Witness ==
    /\ rq.pc = "done"
    /\ rq.validated
    /\ OrchestratorRaised
    /\ rq.outcome.cls = "RatelimitException"
    /\ IsInstance(rq.outcome.cls, "DuckDuckGoSearchException")
    /\ IsErrorEnvelope(rq.ret)
    /\ rq.ret.value.error_type = "rate_limit_error"

(***************************************************************************)
(* Further properties of websearch                                         *)
(***************************************************************************)
SearchRateLimited ==
    ws.outcome.kind = "raise" /\ IsInstance(ws.outcome.cls, "RatelimitException")

\* C23: websearch makes exactly one search call per invocation on every
\* path, with the arguments it was given; on a rate-limit failure it does
\* not call again and returns the fixed advisory string, never the string
\* of the provider-error handler, although the rate-limit class is a
\* subclass of the provider-error class.
C23_OneSearchCallNoRetry ==
    /\ [](/\ Len(ws.calls) <= 1
          /\ ws.pc \in {"searching", "done"} => Len(ws.calls) = 1
          /\ (ws.pc = "done" /\ SearchRateLimited) =>
               /\ IsInstance(ws.outcome.cls, "DuckDuckGoSearchException")
               /\ ws.ret = Str(RatelimitMessage)
               /\ ~StartsWith(ws.ret.value, ProviderErrorPrefix))
    /\ [][ws'.calls # ws.calls =>
            /\ ws.pc = "entered"
            /\ ws.calls = <<>>
            /\ ws'.calls = <<[keywords |-> ws.keywords, region |-> ws.region,
                              max_results |-> ws.max_results]>>]_vars

\* a rate-limit failure whose message is not the advisory sentence: one
\* call was made and the advisory string came back
C23_Witness ==
    /\ ws.pc = "done"
    /\ SearchRateLimited
    /\ ws.outcome.value = Fill("m", ShortLen)
    /\ Len(ws.calls) = 1
    /\ ws.ret = Str(RatelimitMessage)

\* C24: websearch never returns an empty value, whatever its search call
\* did; when the search call returns an empty result set websearch returns
\* the string "No results found.", and when it returns a non-empty result
\* set websearch returns those results.
C24_NeverEmpty ==
    ws.pc = "done" =>
       /\ ~ws.ret.raised
       /\ ws.ret.value # <<>>
       /\ Len(ws.ret.value) > 0
       /\ (ws.outcome.kind = "return" /\ ws.outcome.value = <<>>) =>
             ws.ret = Str(NoResultsFound)
       /\ (ws.outcome.kind = "return" /\ ws.outcome.value # <<>>) =>
             ws.ret = List(ws.outcome.value)

\* the search call returned an empty result set and websearch returned the
\* no-results string
C24_Witness ==
    /\ ws.pc = "done"
    /\ ws.outcome.kind = "return"
    /\ ws.outcome.value = <<>>
    /\ ws.ret.type = "str"
    /\ ws.ret.value = NoResultsFound

(***************************************************************************)
(* Properties of the result of run_complete_analysis                       *)
(***************************************************************************)
\* C25: the slices of run_complete_analysis are copies: a stage output, once
\* bound, is never changed, the arguments are never changed, and the dict
\* returned holds each stage's output in full as its specialist returned it
\* (market_analysis, strategies, execution_plan, risk_assessment), also when
\* it is longer than 2000 characters, together with the ticker, the risk
\* attitude and the horizon as they were passed in.
C25_ResultHoldsFullOutputs ==
    /\ [](run.pc = "Complete" =>
            /\ DOMAIN run.out = {"ticker", "risk_attitude", "horizon"} \cup StageOutputs
            /\ run.out.market_analysis = ReturnedBy(run.events, 1)
            /\ run.out.strategies = ReturnedBy(run.events, 2)
            /\ run.out.execution_plan = ReturnedBy(run.events, 3)
            /\ run.out.risk_assessment = ReturnedBy(run.events, 4)
            /\ run.out.ticker = run.locals.ticker
            /\ run.out.ticker = run.events[1].args.ticker
            /\ run.out.risk_attitude = run.locals.risk_attitude
            /\ run.out.horizon = run.locals.horizon)
    /\ [][/\ \A n \in DOMAIN run.locals : run'.locals[n] = run.locals[n]
          /\ (ia.status = "returned" /\ run'.events # run.events) =>
                run'.events[Len(run.events) + 1] = Returned(run.tool, ia.result)
          /\ \A k \in 1..Len(run.events) : run'.events[k] = run.events[k]]_vars

\* a run completed whose Market, Strategy and Execution outputs are longer
\* than 2000 characters: the downstream stages got 2000 characters of
\* them, the result holds them whole
C25_Witness ==
    /\ run.pc = "Complete"
    /\ Len(run.out.market_analysis) > 2000
    /\ Len(run.out.strategies) > 2000
    /\ Len(run.out.execution_plan) > 2000
    /\ Len(run.events[5].args.strategy_summary) = 2000
    /\ Len(run.events[7].args.market_summary) = 2000
    /\ Len(run.events[7].args.execution_plan) = 2000
    /\ run.out.strategies = ReturnedBy(run.events, 2)

(***************************************************************************)
(* Further properties of process_agentcore_payload                         *)
(***************************************************************************)
\* the prompt of the request, as sent and trimmed
PromptAsSent == PromptOf(rq.payload).chars

PromptTrimmed == Trimmed(PromptOf(rq.payload).chars)

\* a trimmed prompt that is not empty and holds no deny-list substring
CleanPrompt ==
    /\ HasStringPrompt(rq.payload)
    /\ PromptTrimmed # <<>>
    /\ ~HasDenied(PromptTrimmed)

\* C26: the limit of 5000 characters is applied to the trimmed prompt: a
\* clean prompt is accepted exactly when its trimmed length is at most
\* 5000; at a trimmed length of 5000 it is accepted, at 5001 the prompt is
\* rejected for its length, and a prompt longer than 5000 characters as sent
\* whose trimmed length is at most 5000 is accepted.
C26_LimitAfterTrimming ==
    (rq.pc # "received" /\ HasStringPrompt(rq.payload)) =>
       LET trimmed == PromptTrimmed
           clean == trimmed # <<>> /\ ~HasDenied(trimmed)
       IN /\ clean => (rq.validated <=> Len(trimmed) <= 5000)
          /\ (clean /\ Len(trimmed) = 5000) =>
                /\ rq.validated
                /\ rq.user_query = trimmed
          /\ Len(trimmed) = 5001 =>
                /\ RejectedByValidator
                /\ rq.error.msg = MsgTooLong
          /\ (clean /\ Len(PromptAsSent) > 5000 /\ Len(trimmed) <= 5000) =>
                /\ rq.validated
                /\ rq.user_query = trimmed

\* a clean prompt of 5001 characters as sent and 5000 trimmed was accepted
C26_Witness ==
    /\ rq.pc = "analyzing"
    /\ rq.validated
    /\ CleanPrompt
    /\ Len(PromptAsSent) > 5000
    /\ Len(PromptTrimmed) = 5000
    /\ Len(rq.user_query) = 5000

\* C27: every query invoke hands to the orchestrator is not empty, neither
\* begins nor ends with whitespace, is at most 5000 characters long and
\* holds none of the deny-list substrings, in whatever letter case they
\* are written.
C27_QueriesReachingOrchestrator ==
    \A k \in 1..Len(rq.analyze_calls) :
       LET query == rq.analyze_calls[k]
       IN /\ query # <<>>
          /\ query[1] \notin Whitespace
          /\ query[Len(query)] \notin Whitespace
          /\ Len(query) <= 5000
          /\ ~HasDenied(query)

\* a prompt sent with whitespace around it that comes close to the deny
\* list reached the orchestrator, without the whitespace
C27_Witness ==
    /\ rq.pc = "analyzing"
    /\ HasStringPrompt(rq.payload)
    /\ Len(rq.analyze_calls) = 1
    /\ rq.analyze_calls[1] = <<"s", "c", "r", "i", "p", "t", ">">>
    /\ PromptOf(rq.payload).chars[1] \in Whitespace
    /\ Len(PromptOf(rq.payload).chars) > Len(rq.analyze_calls[1])

(***************************************************************************)
(* Properties of the four specialist tools                                 *)
(***************************************************************************)
\* the agent of _agents each tool is for
RoleAgent(tool) ==
    CASE tool = "market_intel_tool" -> "market_intelligence"
      [] tool = "strategy_architect_tool" -> "strategy_architect"
      [] tool = "execution_planner_tool" -> "execution_planner"
      [] tool = "risk_assessor_tool" -> "risk_assessor"
      [] OTHER -> "none"

\* the specialist tool that is executing, called by run_complete_analysis
\* or by the orchestrator agent of a request
ToolInFlight == IF run.pc = "Idle" THEN rq.tool ELSE run.tool

\* C28: each specialist tool makes exactly one invoke_agent invocation, on
\* the agent of its own role and with the token budget 2000, and what the
\* tool returns is what invoke_agent returned, unchanged; no tool ever
\* raises, so failure text is the only form its failure takes.
C28_ToolIsOneAdapterInvocation ==
    /\ [](/\ ia.status # "raised"
          /\ run.pc # "Raised"
          /\ (ia.status = "idle") <=> (ToolInFlight = "")
          /\ ia.status # "idle" =>
               /\ RoleAgent(ToolInFlight) # "none"
               /\ ia.agent = RoleAgent(ToolInFlight)
               /\ ia.max_tokens = 2000)
    /\ [][/\ (ia.status = "running" /\ ia'.status # "idle") =>
               /\ ToolInFlight' = ToolInFlight
               /\ ia'.agent = ia.agent
               /\ ia'.prompt = ia.prompt
               /\ ia'.max_tokens = ia.max_tokens
               /\ Len(ia'.calls) = Len(ia.calls) + 1
          /\ ia.status = "returned" =>
               /\ ia'.status # "returned"
               /\ run.pc # "Idle" =>
                    /\ Len(run'.events) > Len(run.events)
                    /\ run'.events[Len(run.events) + 1] =
                          Returned(ToolInFlight, ia.result)
          /\ (ia.status # "running" /\ ia'.status = "running") =>
               /\ ia' = invoke_agent(RoleAgent(ToolInFlight'), ia'.prompt, 2000)
               /\ run.pc # "Idle" =>
                    /\ run'.events[Len(run'.events)].ev = "call"
                    /\ run'.events[Len(run'.events)].tool = ToolInFlight'
                    /\ Len(run'.events) <= Len(run.events) + 2
          /\ (run.pc # "Idle" /\ run'.events # run.events
              /\ run'.events[Len(run'.events)].ev = "call") =>
               (ia.status # "running" /\ ia'.status = "running")]_vars

\* the risk tool has been through all five attempts of one invoke_agent
\* invocation on the risk agent and comes back with failure text
C28_Witness ==
    /\ ToolInFlight = "risk_assessor_tool"
    /\ ia.status = "returned"
    /\ ia.agent = "risk_assessor"
    /\ ia.max_tokens = 2000
    /\ Len(ia.calls) = 5
    /\ IsFailureText(ia.result)

(***************************************************************************)
(* Termination of run_complete_analysis                                    *)
(***************************************************************************)
\* the stages whose specialist has come back
StagesDone == Len(run.events) \div 2

\* the most capability calls the run can have made so far: five for each
\* stage that is done and those of the invocation in flight
CapabilityCallsAtMost == 5 * StagesDone + Len(ia.calls)

\* C29: when every capability call comes back, returning or failing, a run
\* of run_complete_analysis reaches Complete; its statement only ever moves
\* from Received to Market, Strategy, Execution, Risk and Complete, one step
\* at a time, so each is passed once and none is revisited; the run makes
\* four invocations of at most five capability calls each, at most 20 in
\* all.
C29_RunReachesComplete ==
    /\ <>(run.pc = "Complete")
    /\ [](/\ run.pc \in {"Received", "Market", "Strategy", "Execution", "Risk",
                         "Complete"}
          /\ Len(ia.calls) <= 5
          /\ StagesDone <= 4
          /\ StagesDone = 4 => ia.calls = <<>>
          /\ CapabilityCallsAtMost <= 20
          /\ run.pc = "Complete" =>
               /\ Len(run.events) = 8
               /\ \A k \in 1..4 : run.events[2 * k - 1].tool = ExpectedOrder[k])
    /\ [][/\ run'.pc # run.pc => run'.pc = NextStatement(run.pc)
          /\ ia'.calls # ia.calls =>
               \/ /\ ia.status = "running"
                  /\ Len(ia'.calls) = Len(ia.calls) + 1
                  /\ run'.pc = run.pc
               \/ /\ ia'.calls = <<>>
                  /\ run'.pc # run.pc
          /\ (ia.status # "running" /\ ia'.status = "running") =>
               /\ run'.pc # run.pc
               /\ ia'.calls = <<>>]_vars

\* a run completed after each of its four stages had failed at all five
\* attempts: 20 capability calls
C29_Witness ==
    /\ run.pc = "Complete"
    /\ \A k \in 1..4 : StartsWith(ReturnedBy(run.events, k), ErrorPrefixNoKwargs)
    /\ StartsWith(run.out.risk_assessment, ErrorPrefixNoKwargs)

(***************************************************************************)
(* The value run_complete_analysis returns                                 *)
(***************************************************************************)
\* the return statement's dict display as a Python value: a dict whose
\* entries are the strings bound to its keys
returned_value(out) ==
    DictValue({Item(k, StrValue(out[k])) : k \in DOMAIN out})

\* the entry of the dict d under key
Entry(d, key) == dict_get(d, key, NoneValue)

\* C30 as stated: the terminal output of run_complete_analysis is a single
\* string, the four specialist outputs assembled into one text.
C30_Original ==
    run.pc = "Complete" =>
       LET v == returned_value(run.out)
       IN /\ v.type = "str"
          /\ v.chars = ReturnedBy(run.events, 1) \o ReturnedBy(run.events, 2)
                          \o ReturnedBy(run.events, 3) \o ReturnedBy(run.events, 4)

\* C30 (amended): the terminal output of run_complete_analysis is a dict of
\* seven strings: the four specialist outputs, each under its own key
\* (market_analysis, strategies, execution_plan, risk_assessment) and not
\* assembled into one text, and the ticker, the risk attitude and the
\* horizon.
C30_ResultIsDictOfSevenStrings ==
    run.pc = "Complete" =>
       LET v == returned_value(run.out)
       IN /\ v.type = "dict"
          /\ {i.key : i \in v.items} =
                {"ticker", "risk_attitude", "horizon", "market_analysis",
                 "strategies", "execution_plan", "risk_assessment"}
          /\ Cardinality(v.items) = 7
          /\ \A i \in v.items : i.val.type = "str"
          /\ Entry(v, "market_analysis") = StrValue(ReturnedBy(run.events, 1))
          /\ Entry(v, "strategies") = StrValue(ReturnedBy(run.events, 2))
          /\ Entry(v, "execution_plan") = StrValue(ReturnedBy(run.events, 3))
          /\ Entry(v, "risk_assessment") = StrValue(ReturnedBy(run.events, 4))

\* a run completed whose four outputs differ in kind: the result holds
\* failure text under one key and a model's answer under another
C30_Witness ==
    /\ run.pc = "Complete"
    /\ returned_value(run.out).type = "dict"
    /\ IsFailureText(run.out.market_analysis)
    /\ ~IsFailureText(run.out.risk_assessment)
    /\ Entry(returned_value(run.out), "risk_assessment").chars = Ramp(ShortLen)

=============================================================================
